---- MODULE Spec2Model ----
(***************************************************************************)
(* PaperGen: the two-column measure-then-place layout of the MCQ paper     *)
(* generators (paper_generators/base_generator.py, mcq_generator.py,       *)
(* enhanced_mcq_generator.py), the set builder's shuffle step and the      *)
(* configuration constructors.                                             *)
(*                                                                         *)
(* Lengths are integers in tenths of a millimetre (FPDF works in mm and    *)
(* the code adds 0.1 and 0.5 mm paddings).  A text is the sequence of the  *)
(* widths of its words; get_string_width of a text is the sum of its       *)
(* words plus one space between neighbours.  The Canvas (FPDF) is the      *)
(* external collaborator of spec section 6: multi_cell wraps greedily at   *)
(* the width it is given and cell/multi_cell start a new page when a line  *)
(* would pass the automatic page-break trigger.                            *)
(***************************************************************************)
EXTENDS Integers, Sequences, FiniteSets, TLC

\* the generator instance and what outlives it in the process
VARIABLES
    inst,             \* identity of the generator instance (self)
    spacing,          \* config.spacing of the instance
    initialized_fonts,\* self._initialized_fonts
    fonts,            \* the font families add_font gave the instance
    global_font_cache,\* BasePaperGenerator._global_font_cache
    memo,             \* the lru_cache of estimate_text_height
    seen              \* the passes that have finished in this process

\* ------------------------------------------------------------------------
\* Page geometry and the medium size tier (the default size_config)
\* ------------------------------------------------------------------------
PageW == 2100
PageH == 2970
MIN_FOOTER_BUFFER == 120
AutoBreakMargin == 150
medium_line_height == 50
large_line_height == 60
line_height == spacing.line_height
question_number_width == 100
column_spacing == 150
option_column_gap == 40
before_section == 60
after_section_name == 20
after_description == 40
subsequent_page_y == 50

column_width == (PageW \div 2) - column_spacing
question_width == column_width - question_number_width - 10
options_width == column_width - question_number_width - 30
PageBreakTrigger == PageH - AutoBreakMargin

Max2(a, b) == IF a >= b THEN a ELSE b

\* a step of a sequence of statements: what the statements before it left is
\* computed first, the step is taken from that value
Then(value, Step(_)) == CHOOSE result \in { Step(left) : left \in {value} } : TRUE

\* ------------------------------------------------------------------------
\* Canvas width query
\* ------------------------------------------------------------------------
RECURSIVE SumSeq(_)
SumSeq(s) == IF s = <<>> THEN 0 ELSE Head(s) + SumSeq(Tail(s))

\* width of one space of the current font
SpaceWidth(text) == 10

get_string_width(text) ==
    IF text = <<>> THEN 0 ELSE SumSeq(text) + SpaceWidth(text) * (Len(text) - 1)

\* the words of f"A. {option_text}", f"Explanation: {reasoning}" and
\* option_text + " *"
WithLabel(text) == <<40>> \o text
WithExplanation(text) == <<250>> \o text
WithStar(text) == text \o <<20>>

\* ------------------------------------------------------------------------
\* estimate_text_height: greedy word wrap, lines start at 1
\* ------------------------------------------------------------------------
\* a pass of the loop that never opens a line
WrapWordJoins(word, at, width) ==
    [current_line |-> IF at.current_line # <<>> THEN Append(at.current_line, word)
                      ELSE <<word>>,
     lines |-> at.lines]

\* one pass of the loop over the words: the word joins the current line, or
\* opens the next one when the line would be wider than the width
WrapWord(word, at, width) ==
    LET test_line == IF at.current_line # <<>> THEN Append(at.current_line, word)
                     ELSE <<word>>
    IN  IF get_string_width(test_line) > width
        THEN [current_line |-> <<word>>, lines |-> at.lines + 1]
        ELSE [current_line |-> test_line, lines |-> at.lines]

\* the passes over words[first..last], taken in order from the state at
RECURSIVE WrapFrom(_, _, _, _, _)
WrapFrom(words, first, last, at, width) ==
    IF first > last THEN at
    ELSE IF first = last THEN WrapWord(words[first], at, width)
    ELSE Then(WrapFrom(words, first, (first + last) \div 2, at, width),
              LAMBDA half : WrapFrom(words, (first + last) \div 2 + 1, last, half, width))

\* functools.lru_cache on the method: the key is the argument tuple, self
\* included
LruKey(self, text, width) == [self |-> self, text |-> text, width |-> width]

Cached(text, width) == { e \in memo : e.key = LruKey(inst, text, width) }

Computed(text, width) ==
    WrapFrom(text, 1, Len(text), [current_line |-> <<>>, lines |-> 1], width).lines * line_height

estimate_text_height(text, width) ==
    IF Cached(text, width) # {}
    THEN (CHOOSE e \in Cached(text, width) : TRUE).value
    ELSE Computed(text, width)

\* the cache after the calls in keys = {[text, width]}: a call that misses
\* stores what it has computed
Remembered(keys) ==
    memo \cup { [key |-> LruKey(inst, k.text, k.width), value |-> Computed(k.text, k.width)] :
                k \in { k \in keys : Cached(k.text, k.width) = {} } }

\* lines of a multi_cell of the given width: the Canvas wraps like the
\* estimator, except that a line is opened only when there is a word on it
CanvasWord(word, at, width) ==
    LET test_line == IF at.current_line # <<>> THEN Append(at.current_line, word)
                     ELSE <<word>>
    IN  IF at.current_line # <<>> /\ get_string_width(test_line) > width
        THEN [current_line |-> <<word>>, lines |-> at.lines + 1]
        ELSE [current_line |-> test_line, lines |-> at.lines]

RECURSIVE CanvasWrap(_, _, _, _, _)
CanvasWrap(words, first, last, at, width) ==
    IF first > last THEN at
    ELSE IF first = last THEN CanvasWord(words[first], at, width)
    ELSE Then(CanvasWrap(words, first, (first + last) \div 2, at, width),
              LAMBDA half : CanvasWrap(words, (first + last) \div 2 + 1, last, half, width))

MultiCellLines(text, width) ==
    CanvasWrap(text, 1, Len(text), [current_line |-> <<>>, lines |-> 1], width).lines

\* ------------------------------------------------------------------------
\* Option pairing and the height estimators
\* ------------------------------------------------------------------------
measure_option_width(option_text) == get_string_width(WithLabel(option_text))

\* a pairing test that lets any two options share a row
CanFitAnyTwoOptions(option1, option2) == TRUE

can_fit_two_options(option1, option2) ==
    measure_option_width(option1) + measure_option_width(option2) + option_column_gap
        <= options_width

\* a row of a walk over the choices: the index it starts at and its shape
Row(i, two) == [at |-> i, two |-> two]

\* an estimation walk that never puts two options on one row
RECURSIVE MeasureChoicesOnePerLine(_, _, _, _)
MeasureChoicesOnePerLine(choices, i, total_height, walk) ==
    IF i > Len(choices) THEN [h |-> total_height, walk |-> walk]
    ELSE MeasureChoicesOnePerLine(
             choices, i + 1,
             total_height + estimate_text_height(WithLabel(choices[i]), options_width) + 1 + 5,
             Append(walk, Row(i, FALSE)))

\* MCQPaperGenerator.measure_question_height, the loop over the choices
RECURSIVE MeasureChoicesFrom(_, _, _, _)
MeasureChoicesFrom(choices, i, total_height, walk) ==
    IF i > Len(choices) THEN [h |-> total_height, walk |-> walk]
    ELSE IF i + 1 <= Len(choices) /\ can_fit_two_options(choices[i], choices[i + 1])
    THEN LET half_options_width == (options_width \div 2) - 10
             height == Max2(estimate_text_height(WithLabel(choices[i]), half_options_width),
                            estimate_text_height(WithLabel(choices[i + 1]), half_options_width)) + 1
         IN  MeasureChoicesFrom(choices, i + 2, total_height + height, Append(walk, Row(i, TRUE)))
    ELSE LET option_height == estimate_text_height(WithLabel(choices[i]), options_width) + 1
         IN  MeasureChoicesFrom(choices, i + 1, total_height + option_height + 5,
                                Append(walk, Row(i, FALSE)))

\* an explanation that is shown in every mode
ReasoningShownAlways(reasoning, show_answers) == reasoning # <<>>

ReasoningShown(reasoning, show_answers) == reasoning # <<>> /\ show_answers

measure_question_height(question, choices, reasoning, show_answers) ==
    LET question_height == estimate_text_height(question, question_width)
        opts == MeasureChoicesFrom(choices, 1, question_height + 10, <<>>)
        reasoning_height ==
            IF ReasoningShown(reasoning, show_answers)
            THEN estimate_text_height(WithExplanation(reasoning), options_width) + 70
            ELSE 0
    IN  [h |-> opts.h + reasoning_height + 20, walk |-> opts.walk]

\* EnhancedMCQPaperGenerator._calculate_choices_height
RECURSIVE ChoicesHeightFrom(_, _, _, _)
ChoicesHeightFrom(choices, i, total_height, walk) ==
    IF i > Len(choices) THEN [h |-> total_height, walk |-> walk]
    ELSE IF i + 1 <= Len(choices) /\ can_fit_two_options(choices[i], choices[i + 1])
    THEN LET half_options_width == (options_width \div 2) - 10
             height == Max2(estimate_text_height(WithLabel(choices[i]), half_options_width),
                            estimate_text_height(WithLabel(choices[i + 1]), half_options_width)) + 1
         IN  ChoicesHeightFrom(choices, i + 2, total_height + height, Append(walk, Row(i, TRUE)))
    ELSE LET option_height == estimate_text_height(WithLabel(choices[i]), options_width) + 1
         IN  ChoicesHeightFrom(choices, i + 1, total_height + option_height + 5,
                               Append(walk, Row(i, FALSE)))

calculate_choices_height(choices) == ChoicesHeightFrom(choices, 1, 0, <<>>)

\* a table measured over the rows of its left column only
RECURSIVE MtfRowsHeightOfLeft(_, _, _, _)
MtfRowsHeightOfLeft(left_column, right_column, i, width) ==
    IF i > Len(left_column) THEN 0
    ELSE Max2(estimate_text_height(left_column[i], width),
              IF i <= Len(right_column)
              THEN estimate_text_height(right_column[i], width) ELSE 0) + 10
         + MtfRowsHeightOfLeft(left_column, right_column, i + 1, width)

\* rows of a match-the-following table: max(len(left), len(right))
RECURSIVE MtfRowsHeight(_, _, _, _)
MtfRowsHeight(left_column, right_column, i, width) ==
    IF i > Max2(Len(left_column), Len(right_column)) THEN 0
    ELSE LET left_height == IF i <= Len(left_column)
                            THEN estimate_text_height(left_column[i], width) ELSE 0
             right_height == IF i <= Len(right_column)
                             THEN estimate_text_height(right_column[i], width) ELSE 0
         IN  Max2(left_height, right_height) + 10
             + MtfRowsHeight(left_column, right_column, i + 1, width)

RECURSIVE ListItemsHeight(_, _)
ListItemsHeight(list_items, i) ==
    IF i > Len(list_items) THEN 0
    ELSE estimate_text_height(list_items[i], question_width - 50) + 10
         + ListItemsHeight(list_items, i + 1)

\* a segment of question_text: the sentinel token it equals ("" for literal
\* text) and the words it has when it is taken as literal text
IsBlank(segment) == segment.words = <<>>

\* the keyword arguments a measurement or a drawing receives
SegmentHeight(segment, kwargs) ==
    IF segment.token = "STATEMENT"
    THEN 10 + line_height + 10
         + estimate_text_height(kwargs.statement, question_width - 50) + 20
    ELSE IF segment.token = "LIST"
    THEN ListItemsHeight(kwargs.list_items, 1) + 20
    ELSE IF segment.token = "MTF_DATA"
    THEN MtfRowsHeight(kwargs.mtf_data.left_column, kwargs.mtf_data.right_column, 1,
                       ((question_width - 50) * 45) \div 100) + 50
    ELSE IF segment.token = "PARAGRAPH"
    THEN estimate_text_height(kwargs.paragraph, question_width - 50) + 50
    ELSE estimate_text_height(segment.words, question_width) + 20

RECURSIVE SegmentsHeight(_, _, _)
SegmentsHeight(question_text, i, kwargs) ==
    IF i > Len(question_text) THEN 0
    ELSE (IF IsBlank(question_text[i]) THEN 0 ELSE SegmentHeight(question_text[i], kwargs))
         + SegmentsHeight(question_text, i + 1, kwargs)

measure_universal_question_height(question_text, choices, reasoning, kwargs, show_answers) ==
    LET opts == calculate_choices_height(choices)
        reasoning_height ==
            IF ReasoningShown(reasoning, show_answers)
            THEN estimate_text_height(WithExplanation(reasoning), options_width) + 70
            ELSE 0
    IN  [h |-> SegmentsHeight(question_text, 1, kwargs) + opts.h + reasoning_height + 50,
         walk |-> opts.walk]

\* ------------------------------------------------------------------------
\* The Canvas cursor: [page, y, first_page_offset]
\* ------------------------------------------------------------------------
\* the header FPDF.add_page draws: it leaves first_page_offset and the cursor
FirstPageOffset(show_student_info) ==
    LET first_line_y == 70 + 100 + 100 + 100 + 10
        start_y == first_line_y + 50
        roll_y == start_y + 100 + 100
        student_end_y == roll_y + 50
        instructions_end_y == (start_y - 20) + 50 + 4 * (line_height + 10)
        second_line_y == IF show_student_info
                         THEN Max2(student_end_y, instructions_end_y) + 20
                         ELSE first_line_y + 10
        third_line_y == (second_line_y + 10) + 100 + 10
    IN  third_line_y + 10

header(page, show_student_info) ==
    IF page = 1
    THEN [page |-> 1, y |-> FirstPageOffset(show_student_info) + 50,
          first_page_offset |-> FirstPageOffset(show_student_info)]
    ELSE [page |-> page, y |-> subsequent_page_y + 150, first_page_offset |-> 0]

add_page(pdf, show_student_info) == header(pdf.page + 1, show_student_info)

set_y(pdf, y) == [pdf EXCEPT !.y = y]

\* FPDF.cell: a cell that would pass the trigger opens a new page first
cell(pdf, h, show_student_info) ==
    IF pdf.y + h > PageBreakTrigger THEN add_page(pdf, show_student_info) ELSE pdf

ln(pdf, h) == set_y(pdf, pdf.y + h)

\* FPDF.multi_cell: one cell per line, the cursor below each (the first half
\* of the lines, then the rest)
RECURSIVE CellLines(_, _, _, _)
CellLines(pdf, n, h, show_student_info) ==
    IF n = 0 THEN pdf
    ELSE IF n = 1 THEN ln(cell(pdf, h, show_student_info), h)
    ELSE Then(CellLines(pdf, n \div 2, h, show_student_info),
              LAMBDA half : CellLines(half, n - (n \div 2), h, show_student_info))

multi_cell(pdf, text, width, show_student_info) ==
    CellLines(pdf, MultiCellLines(text, width), line_height, show_student_info)

RightColumnStart(pdf) == IF pdf.page = 1 THEN pdf.first_page_offset + 50 ELSE 200

\* ------------------------------------------------------------------------
\* Drawing a question
\* ------------------------------------------------------------------------
\* MCQPaperGenerator._write_single_option: [pdf, height]
OptionWritten(done, y) == [pdf |-> done, height |-> done.y - y]

write_single_option(pdf, option_text, y, width, is_answer, show_answers, ssi) ==
    OptionWritten(
        multi_cell(set_y(cell(set_y(pdf, y), line_height, ssi), y),
                   IF is_answer /\ show_answers THEN WithStar(option_text) ELSE option_text,
                   width - 50 + 10, ssi),
        y)

\* two options side by side: the row is as tall as the taller one
PairWritten(o1, o2) == [pdf |-> o2.pdf, height |-> Max2(o1.height, o2.height)]

WriteSecondOption(o1, option_text, y, width, is_answer, cfg) ==
    Then(o1, LAMBDA first :
                 PairWritten(first, write_single_option(first.pdf, option_text, y, width,
                                                        is_answer, cfg.show_answers, cfg.ssi)))

\* the loop over the choices of add_question: [pdf, current_y, walk]
RECURSIVE WriteChoicesFrom(_, _, _, _, _, _, _)
RECURSIVE AfterRow(_, _, _, _, _, _, _)
AfterRow(row, choices, i, current_y, correct_answer_index, cfg, walk) ==
    Then(row, LAMBDA written :
                  WriteChoicesFrom(written.pdf, choices, i, current_y + written.height + 10,
                                   correct_answer_index, cfg, walk))

WriteChoicesFrom(pdf, choices, i, current_y, correct_answer_index, cfg, walk) ==
    IF i > Len(choices) THEN [pdf |-> pdf, current_y |-> current_y, walk |-> walk]
    ELSE IF i + 1 <= Len(choices) /\ can_fit_two_options(choices[i], choices[i + 1])
    THEN AfterRow(
             WriteSecondOption(
                 write_single_option(pdf, choices[i], current_y,
                                     (options_width - option_column_gap) \div 2,
                                     i = correct_answer_index, cfg.show_answers, cfg.ssi),
                 choices[i + 1], current_y, (options_width - option_column_gap) \div 2,
                 i + 1 = correct_answer_index, cfg),
             choices, i + 2, current_y, correct_answer_index, cfg,
             Append(walk, Row(i, TRUE)))
    ELSE AfterRow(
             write_single_option(pdf, choices[i], current_y, options_width,
                                 i = correct_answer_index, cfg.show_answers, cfg.ssi),
             choices, i + 1, current_y, correct_answer_index, cfg,
             Append(walk, Row(i, FALSE)))

\* the "Explanation:" block of add_question: [pdf, current_y]
ReasoningWritten(done) == [pdf |-> done, current_y |-> done.y + 20]

WriteReasoning(pdf, reasoning, current_y, cfg) ==
    ReasoningWritten(
        multi_cell(set_y(cell(set_y(pdf, current_y + 10), 50, cfg.ssi), current_y + 10 + 50),
                   reasoning, options_width, cfg.ssi))

\* the end of add_question: the gap below the question. A drawing reports
\* the cursor it leaves, the page of the first and of the last element drawn,
\* the walk over the choices
Finished(expl, first_page, walk) ==
    [pdf |-> set_y(expl.pdf, expl.current_y + 10), first_page |-> first_page,
     last_page |-> expl.pdf.page, walk |-> walk]

AfterChoices(opts, first_page, reasoning, cfg) ==
    Then(opts, LAMBDA written :
                   Finished(IF ReasoningShown(reasoning, cfg.show_answers)
                            THEN WriteReasoning(written.pdf, reasoning, written.current_y, cfg)
                            ELSE [pdf |-> written.pdf, current_y |-> written.current_y],
                            first_page, written.walk))

\* MCQPaperGenerator.add_question, from "Now we have confirmed space"
AfterText(texted, first_page, choices, correct_answer_index, reasoning, cfg) ==
    Then(texted, LAMBDA written :
                     AfterChoices(WriteChoicesFrom(written, choices, 1, written.y + 10,
                                                   correct_answer_index, cfg, <<>>),
                                  first_page, reasoning, cfg))

AfterNumber(numbered, start_y, question, choices, correct_answer_index, reasoning, cfg) ==
    AfterText(multi_cell(set_y(numbered, start_y), question, question_width, cfg.ssi),
              numbered.page, choices, correct_answer_index, reasoning, cfg)

\* EnhancedMCQPaperGenerator.render_mtf_table: [pdf, current_y]
MtfWidth == ((question_width - 50) * 45) \div 100

MtfSide(pdf, column, i, y, cfg) ==
    IF i <= Len(column) THEN multi_cell(set_y(pdf, y), column[i], MtfWidth, cfg.ssi) ELSE pdf

MtfSideHeight(column, i) ==
    IF i <= Len(column) THEN estimate_text_height(column[i], MtfWidth) ELSE 0

RECURSIVE RenderMtfRows(_, _, _, _, _, _)
RenderMtfRows(pdf, left_column, right_column, i, current_y, cfg) ==
    IF i > Max2(Len(left_column), Len(right_column))
    THEN [pdf |-> pdf, current_y |-> current_y]
    ELSE Then(MtfSide(cell(set_y(MtfSide(pdf, left_column, i, current_y, cfg),
                                 current_y + (MtfSideHeight(left_column, i) \div 2) - 20),
                           50, cfg.ssi),
                      right_column, i, current_y, cfg),
              LAMBDA row :
                  RenderMtfRows(row, left_column, right_column, i + 1,
                                current_y + Max2(MtfSideHeight(left_column, i),
                                                 MtfSideHeight(right_column, i)) + 10,
                                cfg))

RECURSIVE RenderListItems(_, _, _, _, _)
RECURSIVE AfterListItem(_, _, _, _)
AfterListItem(done, list_items, i, cfg) ==
    Then(done, LAMBDA item : RenderListItems(item, list_items, i, item.y + 10, cfg))

RenderListItems(pdf, list_items, i, current_y, cfg) ==
    IF i > Len(list_items) THEN [pdf |-> pdf, current_y |-> current_y]
    ELSE AfterListItem(multi_cell(set_y(pdf, current_y), list_items[i], question_width - 50,
                                  cfg.ssi),
                       list_items, i + 1, cfg)

\* EnhancedMCQPaperGenerator._render_question_segment: [pdf, current_y]
TextRendered(done, gap) == [pdf |-> done, current_y |-> done.y + gap]
BlockRendered(block) == [pdf |-> block.pdf, current_y |-> block.current_y + 10]

render_question_segment(pdf, segment, y, kwargs, cfg) ==
    IF segment.token = "STATEMENT"
    THEN TextRendered(
             multi_cell(set_y(cell(set_y(pdf, y + 10), line_height, cfg.ssi),
                              y + 10 + line_height + 10),
                        kwargs.statement, question_width - 50, cfg.ssi),
             20)
    ELSE IF segment.token = "LIST"
    THEN BlockRendered(RenderListItems(set_y(pdf, y), kwargs.list_items, 1, y + 10, cfg))
    ELSE IF segment.token = "MTF_DATA"
    THEN BlockRendered(RenderMtfRows(set_y(pdf, y), kwargs.mtf_data.left_column,
                                     kwargs.mtf_data.right_column, 1, y + 10, cfg))
    ELSE IF segment.token = "PARAGRAPH"
    THEN TextRendered(multi_cell(set_y(pdf, y + 10), kwargs.paragraph, question_width - 50,
                                 cfg.ssi),
                      10)
    ELSE TextRendered(multi_cell(set_y(pdf, y), segment.words, question_width, cfg.ssi), 10)

RECURSIVE RenderSegments(_, _, _, _, _, _)
RECURSIVE AfterSegment(_, _, _, _, _)
AfterSegment(seg, question_text, i, kwargs, cfg) ==
    Then(seg, LAMBDA rendered :
                  RenderSegments(rendered.pdf, question_text, i, rendered.current_y, kwargs, cfg))

RenderSegments(pdf, question_text, i, current_y, kwargs, cfg) ==
    IF i > Len(question_text) THEN [pdf |-> pdf, current_y |-> current_y]
    ELSE IF IsBlank(question_text[i])
    THEN RenderSegments(pdf, question_text, i + 1, current_y, kwargs, cfg)
    ELSE AfterSegment(render_question_segment(pdf, question_text[i], current_y, kwargs, cfg),
                      question_text, i + 1, kwargs, cfg)

\* EnhancedMCQPaperGenerator._render_choices
render_choices(pdf, choices, y, correct_answer_index, cfg) ==
    WriteChoicesFrom(pdf, choices, 1, y, correct_answer_index, cfg, <<>>)

\* EnhancedMCQPaperGenerator.add_question, from "Now render the question"
AfterSegments(segs, first_page, choices, correct_answer_index, reasoning, cfg) ==
    Then(segs, LAMBDA rendered :
                   AfterChoices(render_choices(rendered.pdf, choices, rendered.current_y + 10,
                                               correct_answer_index, cfg),
                                first_page, reasoning, cfg))

AfterQuestionNumber(numbered, start_y, question_text, choices, answer, reasoning, kwargs, cfg) ==
    AfterSegments(RenderSegments(numbered, question_text, 1, start_y, kwargs, cfg),
                  numbered.page, choices, answer, reasoning, cfg)

\* ------------------------------------------------------------------------
\* Sections and the question bank the inputs are drawn from
\* ------------------------------------------------------------------------
MaxQuestions == 4
MaxSections == 2
RecursionLimit == 3

Literal(words) == [token |-> "", words |-> words]

Question(question, question_text, choices, answer, reasoning) ==
    [question |-> question, question_text |-> question_text, choices |-> choices,
     answer |-> answer, reasoning |-> reasoning,
     statement |-> <<>>, list_items |-> <<>>, paragraph |-> <<>>,
     mtf_data |-> [left_column |-> <<>>, right_column |-> <<>>]]

Plain(words, choices, reasoning) ==
    Question(words, <<Literal(words)>>, choices, choices[1], reasoning)

\* the number of lines of the longest question text: with the header of the
\* first page, a section header and the END marker it fills a column
TallStem == 22

\* the number of lines of a question text that is taller than the column of
\* a fresh page
OversizeStem == 52

\* 1: a one-line stem and four short choices, two rows of two
\* 2: a stem and three wide choices, one per line
\* 3: a long stem with an explanation
\* 4: a two-line stem and two short choices
\* 5: a stem of TallStem lines and three wide choices, one per line
\* 6: a stem of OversizeStem lines and two short choices
QuestionBank ==
    << Plain(<<300, 300>>, <<<<120>>, <<130>>, <<140>>, <<150>>>>, <<>>),
       Plain(<<300>>, <<<<700, 40, 700>>, <<700, 40, 700>>, <<700, 40, 700>>>>, <<>>),
       Plain([i \in 1..9 |-> 700], <<<<120>>, <<130>>>>, <<400, 400>>),
       Plain(<<500, 500>>, <<<<120>>, <<130>>>>, <<400>>),
       Plain([i \in 1..TallStem |-> 700],
             <<<<700, 40, 700>>, <<700, 40, 700>>, <<700, 40, 700>>>>, <<>>),
       Plain([i \in 1..OversizeStem |-> 700], <<<<120>>, <<130>>>>, <<>>) >>

TallQuestion == Len(QuestionBank) - 1
OversizeQuestion == Len(QuestionBank)

\* the question lists of the sections of a paper; the oversize question is
\* drawn from OversizeSections only
QuestionLists ==
    UNION { [1..n -> 1..TallQuestion] : n \in 0..MaxQuestions }

Raised == [raised |-> "ValueError"]

\* a constructor that does not compare the required count with the questions
SectionConfigUncounted(name, description, questions, required_questions, marks_per_question) ==
    IF name = <<>> \/ description = <<>> THEN Raised
    ELSE IF questions = <<>> THEN Raised
    ELSE [name |-> name, description |-> description, questions |-> questions,
          required_questions |-> IF required_questions # 0 THEN required_questions
                                 ELSE Len(questions),
          marks_per_question |-> marks_per_question]

\* SectionConfig.__init__; None and 0 are both falsy in "required_questions or len"
SectionConfig(name, description, questions, required_questions, marks_per_question) ==
    IF name = <<>> \/ description = <<>> THEN Raised
    ELSE IF questions = <<>> THEN Raised
    ELSE LET required == IF required_questions # 0 THEN required_questions
                         ELSE Len(questions)
         IN  IF required > Len(questions) THEN Raised
             ELSE [name |-> name, description |-> description, questions |-> questions,
                   required_questions |-> required,
                   marks_per_question |-> marks_per_question]

\* MixedSectionConfig.__init__
MixedSectionConfig(name, description, section_type, questions, required_questions) ==
    IF name = <<>> \/ description = <<>> THEN Raised
    ELSE IF questions = <<>> THEN Raised
    ELSE IF section_type \notin {"MCQ", "AW", "FB", "MTF"} THEN Raised
    ELSE LET required == IF required_questions # 0 THEN required_questions
                         ELSE Len(questions)
         IN  IF required > Len(questions) THEN Raised
             ELSE [name |-> name, description |-> description,
                   section_type |-> section_type, questions |-> questions,
                   required_questions |-> required]

MaxMixed == 2

\* the question lists of a section: every short list, and the uniform lists
\* (the same question repeated) up to MaxQuestions; the tall question comes
\* alone
SectionQuestions ==
    { l \in QuestionLists :
        /\ Len(l) <= MaxMixed \/ \A i \in 1..Len(l) : l[i] = l[1]
        /\ (\E i \in 1..Len(l) : l[i] = TallQuestion) => Len(l) = 1 }

SectionArgs ==
    [questions : SectionQuestions, required_questions : {-1, 0, 1},
     marks_per_question : {1, 2}]

Construct(a) ==
    SectionConfig(<<300>>, <<400, 300>>, a.questions, a.required_questions,
                  a.marks_per_question)

\* the sections a caller can hand to a generator
SectionSet == { Construct(a) : a \in SectionArgs } \ {Raised}

\* sections that fill both columns of the first page
ColumnSections ==
    { Construct([questions |-> l, required_questions |-> 0, marks_per_question |-> 1]) :
        l \in { <<1>>, <<2>>, <<3, 3>>, <<2, 3, 3, 2>>, <<3, 3, 3, 2>> } }

\* sections with the oversize question, alone or next to a short question
OversizeSections ==
    { Construct([questions |-> l, required_questions |-> 0, marks_per_question |-> 1]) :
        l \in { <<1>>, <<OversizeQuestion>>, <<1, OversizeQuestion>>,
                 <<OversizeQuestion, 1>>, <<1, 1>> } }

NoSection == [name |-> <<>>]
NoPlacement == [kind |-> "none"]

VARIABLES
    \* one render pass of a generator
    gen,              \* "mcq": MCQPaperGenerator, "enhanced": EnhancedMCQPaperGenerator
    show_answers,
    show_student_info,
    pdf,              \* the Canvas cursor [page, y, first_page_offset]
    current_side,
    pc,               \* where generate_from_sections stands
    sections,         \* the sections handed to generate_from_sections so far
    section,          \* the section being rendered
    current_idx,      \* index into questions_with_numbers
    first_number,     \* the number given to the section's first question
    question_number,
    total_marks,
    question_count,
    depth,            \* nesting of add_question's calls of itself
    sections_done,
    header_at,        \* placement of the last section header
    last,             \* placement of the last question or of the END marker
    placements,       \* every placement of the pass, in drawing order
    \* a walk over one choice list
    choice_list, walks,
    \* the shuffle step of the set builders
    question_orig, question_copy,
    \* the constructors
    section_args, section_made, config_args, config_made,
    \* a question of typed segments, measured and rendered
    block_question, block_done,
    \* one call of generate_enhanced_mcq_sets_with_keys
    builder_args, builder,
    \* one call of the booklet post-processing of a set
    booklet_args, booklet,
    \* one call of estimate_text_height
    estimate_args, estimate,
    \* one question written by MixedPaperGenerator
    mixed_args, mixed

pass_vars == <<gen, show_answers, show_student_info, pdf, current_side, pc, sections,
               section, current_idx, first_number, question_number, total_marks,
               question_count, depth, sections_done, header_at, last, placements>>
instance_vars == <<inst, spacing, initialized_fonts, fonts, global_font_cache>>
process_vars == <<instance_vars, memo, seen>>
other_vars == <<choice_list, walks, question_orig, question_copy,
                section_args, section_made, config_args, config_made,
                block_question, block_done, builder_args, builder,
                booklet_args, booklet, estimate_args, estimate, mixed_args, mixed>>
vars == <<pass_vars, process_vars, other_vars>>

cfg == [show_answers |-> show_answers, ssi |-> show_student_info]

\* ------------------------------------------------------------------------
\* Construction of a generator: BasePaperGenerator.__init__, _initialize_fonts
\* ------------------------------------------------------------------------
FontKeys ==
    { <<"Noto", "">>, <<"Noto", "B">>, <<"Noto", "I">>, <<"Stinger", "B">>,
      <<"ArialUni", "">>, <<"ArialUni", "I">>, <<"ArialUni", "B">> }

\* add_font only for the keys the class-level cache does not hold yet
FontsAddedOnce(initialized, global) ==
    { k \in FontKeys : k \notin initialized /\ k \notin global }

\* the font keys _initialize_fonts calls add_font for (the font files exist):
\* add_font is called whether or not the key is in the class-level cache
FontsAdded(initialized, global) == { k \in FontKeys : k \notin initialized }

initialize_fonts(initialized, global) ==
    [initialized_fonts |-> initialized \cup FontKeys,
     fonts |-> FontsAdded(initialized, global),
     global_font_cache |-> global \cup FontsAdded(initialized, global)]

\* a new instance: its identity, its configuration, its fonts
Constructed(self, line_height_of_config, global) ==
    /\ inst = self
    /\ spacing = [line_height |-> line_height_of_config]
    /\ initialized_fonts = initialize_fonts({}, global).initialized_fonts
    /\ fonts = initialize_fonts({}, global).fonts
    /\ global_font_cache = initialize_fonts({}, global).global_font_cache

NewPass ==
    /\ pdf = [page |-> 0, y |-> 0, first_page_offset |-> 0]
    /\ current_side = "left"
    /\ pc = "new"
    /\ sections = <<>>
    /\ section = NoSection
    /\ current_idx = 0
    /\ first_number = 0
    /\ question_number = 1
    /\ total_marks = 0
    /\ question_count = 0
    /\ depth = 0
    /\ sections_done = 0
    /\ header_at = NoPlacement
    /\ last = NoPlacement
    /\ placements = <<>>

\* Python's None: nothing passed, nothing constructed
None == [status |-> "none"]

IdleWalk == choice_list = <<>> /\ walks = {}
IdleShuffle == question_orig = None /\ question_copy = None
IdleConstructors ==
    /\ section_args = None
    /\ section_made = None
    /\ config_args = None
    /\ config_made = None

IdleBlocks == block_question = None /\ block_done = None
IdleBuilder == builder_args = None /\ builder = None
IdleBooklet == booklet_args = None /\ booklet = None
IdleEstimate == estimate_args = None /\ estimate = None
IdleMixed == mixed_args = None /\ mixed = None
IdleLate == IdleBooklet /\ IdleEstimate /\ IdleMixed
late_vars == <<booklet_args, booklet, estimate_args, estimate, mixed_args, mixed>>

\* a generator constructed in a fresh process, nothing rendered yet
Generator(line_heights) ==
    /\ gen \in {"mcq", "enhanced"}
    /\ show_answers \in BOOLEAN
    /\ show_student_info = TRUE
    /\ NewPass
    /\ \E h \in line_heights : Constructed(1, h, {})
    /\ memo = {}
    /\ seen = <<>>

\* a generator of the medium tier, constructed in a fresh process
Init ==
    /\ Generator({medium_line_height})
    /\ IdleWalk /\ IdleShuffle /\ IdleConstructors /\ IdleBlocks /\ IdleBuilder /\ IdleLate

At(kind, page, side, y) == [kind |-> kind, page |-> page, side |-> side, y |-> y]

\* the builder's pdf.add_page() before generate_from_sections; header()
\* selects fonts of every family, and set_font raises for a font the
\* instance was not given
AddPage ==
    /\ pc = "new"
    /\ IF FontKeys \subseteq fonts
       THEN pdf' = add_page(pdf, show_student_info) /\ pc' = "section"
       ELSE pdf' = pdf /\ pc' = "failed"
    /\ UNCHANGED <<gen, show_answers, show_student_info, current_side, sections, section,
                   current_idx, first_number, question_number, total_marks,
                   question_count, depth, sections_done, header_at, last, placements>>
    /\ UNCHANGED <<process_vars, other_vars>>

\* ------------------------------------------------------------------------
\* BasePaperGenerator.add_section: [pdf, current_side, first_page]
\* ------------------------------------------------------------------------
SectionHeight(section_name, description) ==
    estimate_text_height(section_name, column_width) + after_section_name
    + estimate_text_height(description, column_width - question_number_width - 10)
    + after_description

\* "Check if section header + first question will fit": [pdf, side]
MoveForSection(at, side, total_needed_height, ssi) ==
    LET effective_page_height == PageH - (MIN_FOOTER_BUFFER + 30)
        below_top == at.y > RightColumnStart(at)
        current_y == IF below_top THEN at.y + before_section ELSE at.y
    IN  IF current_y + total_needed_height > effective_page_height
        THEN IF side = "left"
             THEN IF RightColumnStart(at) + total_needed_height > effective_page_height
                  THEN [pdf |-> set_y(add_page(at, ssi), 200), side |-> "left"]
                  ELSE [pdf |-> set_y(at, RightColumnStart(at)), side |-> "right"]
             ELSE [pdf |-> set_y(add_page(at, ssi), 200), side |-> "left"]
        ELSE IF below_top
             THEN [pdf |-> ln(at, before_section), side |-> side]
             ELSE [pdf |-> at, side |-> side]

SectionDrawn(described, side, first_page, y) ==
    [pdf |-> ln(described, after_description), current_side |-> side,
     first_page |-> first_page, last_page |-> described.page, y |-> y]

DescribeSection(named, side, first_page, y, description, ssi) ==
    Then(named, LAMBDA titled :
                    SectionDrawn(multi_cell(ln(titled, after_section_name), description,
                                            column_width - question_number_width - 10, ssi),
                                 side, first_page, y))

DrawSection(moved, section_name, description, ssi) ==
    Then(moved, LAMBDA placed :
                    DescribeSection(multi_cell(placed.pdf, section_name, column_width, ssi),
                                    placed.side, cell(placed.pdf, line_height, ssi).page,
                                    placed.pdf.y, description, ssi))

add_section(at, side, section_name, description, next_question_height, ssi) ==
    DrawSection(MoveForSection(at, side,
                               SectionHeight(section_name, description) + next_question_height,
                               ssi),
                section_name, description, ssi)

\* section.questions[:section.required_questions]
Slice(questions, n) ==
    IF n >= 0
    THEN SubSeq(questions, 1, IF n <= Len(questions) THEN n ELSE Len(questions))
    ELSE SubSeq(questions, 1, Len(questions) + n)

selected_questions == Slice(section.questions, section.required_questions)

RECURSIVE IndexOf(_, _, _)
IndexOf(choices, answer, i) ==
    IF i > Len(choices) THEN 0
    ELSE IF choices[i] = answer THEN i ELSE IndexOf(choices, answer, i + 1)

\* the keyword arguments generate_from_sections builds for the look-ahead
\* (height_kwargs) and for add_question (kwargs)
HeightKwargs(q) ==
    [statement |-> q.statement, list_items |-> <<>>, paragraph |-> q.paragraph,
     mtf_data |-> q.mtf_data]

QuestionKwargs(q) ==
    [statement |-> q.statement, list_items |-> q.list_items, paragraph |-> q.paragraph,
     mtf_data |-> q.mtf_data]

\* _get_question_text
get_question_text(q) ==
    IF q.question_text = <<>> THEN <<Literal(<<>>)>> ELSE q.question_text

FirstQuestionHeight(q) ==
    IF gen = "mcq"
    THEN measure_question_height(q.question, q.choices, q.reasoning, show_answers).h
    ELSE measure_universal_question_height(get_question_text(q), q.choices, q.reasoning,
                                           HeightKwargs(q), show_answers).h

\* ------------------------------------------------------------------------
\* the calls of estimate_text_height a measurement makes: {[text, width]}
\* ------------------------------------------------------------------------
Est(text, width) == [text |-> text, width |-> width]

RECURSIVE ChoiceEstimates(_, _)
ChoiceEstimates(choices, i) ==
    IF i > Len(choices) THEN {}
    ELSE IF i + 1 <= Len(choices) /\ can_fit_two_options(choices[i], choices[i + 1])
    THEN { Est(WithLabel(choices[i]), (options_width \div 2) - 10),
           Est(WithLabel(choices[i + 1]), (options_width \div 2) - 10) }
         \cup ChoiceEstimates(choices, i + 2)
    ELSE { Est(WithLabel(choices[i]), options_width) } \cup ChoiceEstimates(choices, i + 1)

ReasoningEstimates(reasoning) ==
    IF ReasoningShown(reasoning, show_answers)
    THEN { Est(WithExplanation(reasoning), options_width) } ELSE {}

SegmentEstimates(segment, kwargs) ==
    IF IsBlank(segment) THEN {}
    ELSE IF segment.token = "STATEMENT" THEN { Est(kwargs.statement, question_width - 50) }
    ELSE IF segment.token = "LIST"
    THEN { Est(kwargs.list_items[i], question_width - 50) : i \in DOMAIN kwargs.list_items }
    ELSE IF segment.token = "MTF_DATA"
    THEN { Est(kwargs.mtf_data.left_column[i], ((question_width - 50) * 45) \div 100) :
             i \in DOMAIN kwargs.mtf_data.left_column }
         \cup { Est(kwargs.mtf_data.right_column[i], ((question_width - 50) * 45) \div 100) :
                  i \in DOMAIN kwargs.mtf_data.right_column }
    ELSE IF segment.token = "PARAGRAPH" THEN { Est(kwargs.paragraph, question_width - 50) }
    ELSE { Est(segment.words, question_width) }

QuestionEstimates(q, reasoning, kwargs) ==
    (IF gen = "mcq" THEN { Est(q.question, question_width) }
     ELSE UNION { SegmentEstimates(get_question_text(q)[i], kwargs) :
                    i \in DOMAIN get_question_text(q) })
    \cup ChoiceEstimates(q.choices, 1) \cup ReasoningEstimates(reasoning)

SectionEstimates(s) ==
    { Est(s.name, column_width), Est(s.description, column_width - question_number_width - 10) }

\* generate_from_sections, one section: numbering, look-ahead, add_section
SectionPlaced(placed) ==
    /\ pdf' = placed.pdf
    /\ current_side' = placed.current_side
    /\ header_at' = [kind |-> "header", page |-> placed.first_page,
                     side |-> placed.current_side, y |-> placed.y,
                     last_page |-> placed.last_page]
    /\ placements' = Append(placements,
                            At("header", placed.first_page, placed.current_side, placed.y))

\* questions_with_numbers[0] of an empty selection raises IndexError
SectionBegun(s, selected) ==
    IF selected = <<>>
    THEN /\ pc' = "failed"
         /\ UNCHANGED <<pdf, current_side, current_idx, first_number, question_number,
                        header_at, placements, memo>>
    ELSE /\ SectionPlaced(add_section(pdf, current_side, s.name, s.description,
                                      FirstQuestionHeight(QuestionBank[selected[1]]),
                                      show_student_info))
         /\ memo' = Remembered(
                        QuestionEstimates(QuestionBank[selected[1]],
                                          QuestionBank[selected[1]].reasoning,
                                          HeightKwargs(QuestionBank[selected[1]]))
                        \cup SectionEstimates(s))
         /\ first_number' = question_number
         /\ question_number' = question_number + Len(selected)
         /\ current_idx' = 1
         /\ pc' = "question"

BeginSection(s) ==
    /\ pc = "section"
    /\ sections_done < MaxSections
    /\ section' = s
    /\ sections' = Append(sections, s)
    /\ SectionBegun(s, Slice(s.questions, s.required_questions))
    /\ UNCHANGED <<gen, show_answers, show_student_info, total_marks, question_count,
                   depth, sections_done, last>>
    /\ UNCHANGED <<instance_vars, seen, other_vars>>

\* ------------------------------------------------------------------------
\* add_question
\* ------------------------------------------------------------------------
current_question == QuestionBank[selected_questions[current_idx]]

\* the arguments generate_from_sections passes to add_question
CorrectAnswerIndex(q) == IF show_answers THEN IndexOf(q.choices, q.answer, 1) ELSE 0
ReasoningArg(q) == IF show_answers THEN q.reasoning ELSE <<>>

NeededHeight(q) ==
    IF gen = "mcq"
    THEN measure_question_height(q.question, q.choices, ReasoningArg(q), show_answers)
    ELSE measure_universal_question_height(get_question_text(q), q.choices, ReasoningArg(q),
                                           QuestionKwargs(q), show_answers)

Draw(q) ==
    IF gen = "mcq"
    THEN AfterNumber(cell(pdf, 50, cfg.ssi), pdf.y, q.question, q.choices,
                     CorrectAnswerIndex(q), ReasoningArg(q), cfg)
    ELSE AfterQuestionNumber(cell(pdf, 50, cfg.ssi), pdf.y, get_question_text(q), q.choices,
                             CorrectAnswerIndex(q), ReasoningArg(q), QuestionKwargs(q), cfg)

\* the texts add_question hands to the canvas: the question text, every
\* choice (with the marker glyph when it is the marked one), the explanation
DrawnTexts(q) ==
    [question |-> IF gen = "mcq" THEN <<Literal(q.question)>> ELSE get_question_text(q),
     options |-> [i \in DOMAIN q.choices |->
                     IF i = CorrectAnswerIndex(q) /\ show_answers
                     THEN WithStar(q.choices[i]) ELSE q.choices[i]],
     explanation |-> IF ReasoningShown(ReasoningArg(q), show_answers)
                     THEN ReasoningArg(q) ELSE <<>>]

\* the fit test of add_question: the safety buffer and its own footer buffer
QuestionFits(needed_height, at) ==
    needed_height + 50 <= (PageH - (MIN_FOOTER_BUFFER + 50)) - at.y

\* "If not enough space, move to next column or page": [pdf, side]
MoveForQuestion(needed_height, at, side, ssi) ==
    LET effective_page_height == PageH - (MIN_FOOTER_BUFFER + 50)
        right_available_space == effective_page_height - RightColumnStart(at)
    IN  IF side = "left" /\ needed_height + 50 <= right_available_space
        THEN [pdf |-> set_y(at, RightColumnStart(at)), side |-> "right"]
        ELSE [pdf |-> set_y(add_page(at, ssi), 200), side |-> "left"]

\* marks are added per question after add_question returns; the MCQ generator
\* adds them inside the loop over the remaining questions only
MarksFor(idx) ==
    IF gen = "mcq" /\ idx = 1 THEN 0 ELSE section.marks_per_question

\* one call of add_question that finds no room: it moves and calls itself
Moved(moved) ==
    /\ pdf' = moved.pdf
    /\ current_side' = moved.side

\* the cache after add_question has measured the current question
MeasuredNow ==
    Remembered(QuestionEstimates(current_question, ReasoningArg(current_question),
                                 QuestionKwargs(current_question)))

AddQuestionMove ==
    /\ pc = "question"
    /\ ~QuestionFits(NeededHeight(current_question).h, pdf)
    /\ Moved(MoveForQuestion(NeededHeight(current_question).h, pdf, current_side,
                             show_student_info))
    /\ memo' = MeasuredNow
    /\ IF depth + 1 > RecursionLimit
       THEN pc' = "failed" /\ depth' = depth
       ELSE pc' = pc /\ depth' = depth + 1
    /\ UNCHANGED <<gen, show_answers, show_student_info, sections, section, current_idx,
                   first_number, question_number, total_marks, question_count,
                   sections_done, header_at, last, placements>>
    /\ UNCHANGED <<instance_vars, seen, other_vars>>

\* what the pass remembers of the question it has just drawn
Placement(drawn, needed) ==
    [kind |-> "question",
     number |-> first_number + current_idx - 1,
     idx |-> current_idx,
     bank |-> selected_questions[current_idx],
     page |-> drawn.first_page, side |-> current_side,
     last_page |-> drawn.last_page,
     y |-> pdf.y, end_y |-> drawn.pdf.y,
     needed |-> needed.h, moves |-> depth,
     measured_walk |-> needed.walk, drawn_walk |-> drawn.walk]

QuestionDrawn(drawn, needed, more) ==
    /\ pdf' = drawn.pdf
    /\ last' = Placement(drawn, needed)
    /\ placements' = Append(placements,
                            At("question", drawn.first_page, current_side, pdf.y))
    /\ pc' = IF more THEN (IF gen = "mcq" THEN "adjust" ELSE "question") ELSE "section"
    /\ sections_done' = IF more THEN sections_done ELSE sections_done + 1

\* one call of add_question that has room: it draws the question
AddQuestionDraw ==
    /\ pc = "question"
    /\ QuestionFits(NeededHeight(current_question).h, pdf)
    /\ QuestionDrawn(Draw(current_question), NeededHeight(current_question),
                     current_idx < Len(selected_questions))
    /\ memo' = MeasuredNow
    /\ total_marks' = total_marks + MarksFor(current_idx)
    /\ current_idx' = current_idx + 1
    /\ depth' = 0
    /\ UNCHANGED <<gen, show_answers, show_student_info, current_side, sections, section,
                   first_number, question_number, question_count, header_at>>
    /\ UNCHANGED <<instance_vars, seen, other_vars>>

\* MCQPaperGenerator.check_and_adjust_position, called before each remaining
\* question (with or without strict_ordering)
check_and_adjust_position(needed_height, at, side, ssi) ==
    LET effective_page_height == PageH - (MIN_FOOTER_BUFFER + 20)
        right_column_space == effective_page_height - RightColumnStart(at)
    IN  IF at.y + needed_height > effective_page_height
        THEN IF side = "left" /\ right_column_space - 10 >= needed_height
             THEN [pdf |-> set_y(at, RightColumnStart(at)), side |-> "right"]
             ELSE [pdf |-> set_y(add_page(at, ssi), 200), side |-> "left"]
        ELSE [pdf |-> at, side |-> side]

CheckAndAdjust ==
    /\ pc = "adjust"
    /\ Moved(check_and_adjust_position(
                 measure_question_height(current_question.question, current_question.choices,
                                         current_question.reasoning, show_answers).h,
                 pdf, current_side, show_student_info))
    /\ memo' = Remembered(QuestionEstimates(current_question, current_question.reasoning,
                                            HeightKwargs(current_question)))
    /\ pc' = "question"
    /\ UNCHANGED <<gen, show_answers, show_student_info, sections, section, current_idx,
                   first_number, question_number, total_marks, question_count, depth,
                   sections_done, header_at, last, placements>>
    /\ UNCHANGED <<instance_vars, seen, other_vars>>

\* ------------------------------------------------------------------------
\* BasePaperGenerator.draw_end_marker and the end of generate_from_sections
\* ------------------------------------------------------------------------
\* an end marker drawn wherever the cursor is
MoveForEndMarkerNever(at, side, ssi) == [pdf |-> at, side |-> side]

MoveForEndMarker(at, side, ssi) ==
    IF at.y + 200 > PageH - MIN_FOOTER_BUFFER
    THEN IF side = "left"
         THEN [pdf |-> set_y(at, RightColumnStart(at)), side |-> "right"]
         ELSE [pdf |-> set_y(add_page(at, ssi), 200), side |-> "left"]
    ELSE [pdf |-> at, side |-> side]

EndMarked(drawn, y, side) ==
    [pdf |-> ln(set_y(drawn, y), 100), current_side |-> side, page |-> drawn.page, y |-> y]

MarkEnd(spaced, side, ssi) == EndMarked(cell(spaced, 50, ssi), spaced.y, side)

draw_end_marker(at, side, ssi) ==
    MarkEnd(ln(MoveForEndMarker(at, side, ssi).pdf, 100), MoveForEndMarker(at, side, ssi).side,
            ssi)

EndMarkerDrawn(marked) ==
    /\ pdf' = marked.pdf
    /\ current_side' = marked.current_side
    /\ last' = [kind |-> "end", page |-> marked.page, side |-> marked.current_side,
                y |-> marked.y]
    /\ placements' = Append(placements,
                            At("end", marked.page, marked.current_side, marked.y))

DrawEndMarker ==
    /\ pc = "section"
    /\ EndMarkerDrawn(draw_end_marker(pdf, current_side, show_student_info))
    /\ question_count' = question_number - 1
    /\ pc' = "done"
    /\ UNCHANGED <<gen, show_answers, show_student_info, sections, section, current_idx,
                   first_number, question_number, total_marks, depth, sections_done,
                   header_at>>
    /\ UNCHANGED <<process_vars, other_vars>>

\* what the sections handed in ask for
RECURSIVE RequiredTotal(_)
RequiredTotal(ss) ==
    IF ss = <<>> THEN 0 ELSE Head(ss).required_questions + RequiredTotal(Tail(ss))

RECURSIVE RenderedMarks(_)
RenderedMarks(ss) ==
    IF ss = <<>> THEN 0
    ELSE Len(Slice(Head(ss).questions, Head(ss).required_questions))
             * Head(ss).marks_per_question
         + RenderedMarks(Tail(ss))

Next ==
    \/ AddPage
    \/ \E s \in SectionSet : BeginSection(s)
    \/ AddQuestionMove
    \/ AddQuestionDraw
    \/ CheckAndAdjust
    \/ DrawEndMarker

Spec == Init /\ [][Next]_vars

\* a paper with a section of four questions that fills the first page
NextColumns ==
    \/ AddPage
    \/ \E s \in ColumnSections : BeginSection(s)
    \/ AddQuestionMove
    \/ AddQuestionDraw
    \/ CheckAndAdjust
    \/ DrawEndMarker

SpecColumns == Init /\ [][NextColumns]_vars

\* a paper whose sections may hold the oversize question
NextOversize ==
    \/ AddPage
    \/ \E s \in OversizeSections : BeginSection(s)
    \/ AddQuestionMove
    \/ AddQuestionDraw
    \/ CheckAndAdjust
    \/ DrawEndMarker

SpecOversize == Init /\ [][NextOversize]_vars

\* ------------------------------------------------------------------------
\* Properties of the render pass
\* ------------------------------------------------------------------------
last_question == QuestionBank[last.bank]

\* the estimate and the drawing wrap every text of the question into the same
\* number of lines
RECURSIVE SameChoiceWraps(_, _)
SameChoiceWraps(choices, i) ==
    IF i > Len(choices) THEN TRUE
    ELSE IF i + 1 <= Len(choices) /\ can_fit_two_options(choices[i], choices[i + 1])
    THEN /\ \A k \in {i, i + 1} :
                estimate_text_height(WithLabel(choices[k]), (options_width \div 2) - 10)
                = MultiCellLines(choices[k], ((options_width - option_column_gap) \div 2) - 40)
                  * line_height
         /\ SameChoiceWraps(choices, i + 2)
    ELSE /\ estimate_text_height(WithLabel(choices[i]), options_width)
            = MultiCellLines(choices[i], options_width - 40) * line_height
         /\ SameChoiceWraps(choices, i + 1)

SameWraps(q) ==
    /\ estimate_text_height(q.question, question_width)
       = MultiCellLines(q.question, question_width) * line_height
    /\ SameChoiceWraps(q.choices, 1)
    /\ estimate_text_height(WithExplanation(q.reasoning), options_width)
       = MultiCellLines(q.reasoning, options_width) * line_height

\* C1: when add_question has drawn a question, the question number (the first
\* element drawn) and the last element drawn are on the same page and in the
\* same column
C1_QuestionInOneColumn ==
    last.kind = "question" => last.page = last.last_page

\* C2: the header of a section and the first line of the section's first
\* question are on the same page and in the same column
C2_HeaderWithFirstQuestion ==
    (last.kind = "question" /\ last.idx = 1)
        => (last.page = header_at.page /\ last.side = header_at.side)

\* C3: with the same wrap line counts, the estimated height of a question is
\* at least the distance the cursor advances while add_question draws it
C3_EstimateCoversAdvance ==
    (/\ last.kind = "question"
     /\ last.page = last.last_page
     /\ SameWraps(last_question))
        => last.needed >= last.end_y - last.y

\* C10: generate_from_sections returns the sum over the sections of the number
\* of questions rendered times marks_per_question
C10_TotalMarks ==
    pc = "done" => total_marks = RenderedMarks(sections)

RECURSIVE QuestionsPlaced(_)
QuestionsPlaced(ps) ==
    IF ps = <<>> THEN 0
    ELSE (IF Head(ps).kind = "question" THEN 1 ELSE 0) + QuestionsPlaced(Tail(ps))

\* C9: the questions drawn are the first required_questions of each section in
\* input order, their numbers are 1, 2, ..., N without gap or repeat across the
\* sections, N the sum of required_questions, and question_count is N after
\* the pass
C9_FirstRequiredInOrder ==
    /\ last.kind = "question"
          => /\ last.number = QuestionsPlaced(placements)
             /\ last.idx <= section.required_questions
             /\ last.bank = section.questions[last.idx]
    /\ pc = "done"
          => /\ question_count = RequiredTotal(sections)
             /\ QuestionsPlaced(placements) = RequiredTotal(sections)

\* the inputs that differ from q in their answer and reasoning fields only
AnswerVariants(q) ==
    { [q EXCEPT !.answer = a, !.reasoning = r] :
        a \in { q.choices[i] : i \in DOMAIN q.choices }, r \in { <<>>, <<400, 400>> } }

\* C11: in a question-paper pass (show_answers = FALSE) the answer and the
\* reasoning of a question reach no estimate and no drawing: every input that
\* differs from the current question in these two fields only gets the same
\* estimates (look-ahead, position adjustment, add_question), the same
\* drawing and the same texts, no choice carries the marker and no
\* explanation is drawn
C11_QuestionPaperHidesAnswers ==
    (pc = "question" /\ ~show_answers) =>
        \A v \in AnswerVariants(current_question) :
            /\ FirstQuestionHeight(v) = FirstQuestionHeight(current_question)
            /\ NeededHeight(v) = NeededHeight(current_question)
            /\ measure_question_height(v.question, v.choices, v.reasoning, show_answers)
               = measure_question_height(current_question.question, current_question.choices,
                                         current_question.reasoning, show_answers)
            /\ Draw(v) = Draw(current_question)
            /\ DrawnTexts(v) = DrawnTexts(current_question)
            /\ DrawnTexts(v).options = v.choices
            /\ DrawnTexts(v).explanation = <<>>

\* a question that has an explanation was drawn in a question-paper pass
C11_Witness ==
    /\ ~show_answers
    /\ last.kind = "question"
    /\ last_question.reasoning # <<>>
    /\ pc = "question"

\* where the END marker goes when the cursor is at y on the given page and
\* side: its fixed height of 20 units is tested against the page height less
\* the footer buffer
EndMarkerPlace(at, side) ==
    IF at.y + 200 <= PageH - MIN_FOOTER_BUFFER
    THEN [page |-> at.page, side |-> side, y |-> at.y + 100]
    ELSE IF side = "left"
    THEN [page |-> at.page, side |-> "right", y |-> RightColumnStart(at) + 100]
    ELSE [page |-> at.page + 1, side |-> "left", y |-> 200 + 100]

\* C12: the END marker is drawn once, when the pass ends, after the last
\* question of the last section; nothing is drawn once it has been drawn; it
\* stays under the cursor when 20 units fit below it, else it goes to the right
\* column of the page, or from the right column to a new page
C12_EndMarkerOnceAndLast ==
    [][ /\ placements' # placements
            => /\ last.kind # "end"
               /\ \A k \in DOMAIN placements : placements[k].kind # "end"
        /\ pc' = "done" => last'.kind = "end"
        /\ (last'.kind = "end" /\ last.kind # "end")
            => /\ pc' = "done"
               /\ sections # <<>>
                     => /\ last.kind = "question"
                        /\ section = sections[Len(sections)]
                        /\ last.idx = Len(selected_questions)
               /\ [page |-> last'.page, side |-> last'.side, y |-> last'.y]
                  = EndMarkerPlace(pdf, current_side)
               /\ placements' = Append(placements,
                                       At("end", last'.page, last'.side, last'.y))
      ]_vars

\* a pass has ended with the END marker moved to the right column, the last
\* question being in the left one
C12_Witness ==
    /\ pc = "done"
    /\ Len(placements) >= 2
    /\ placements[Len(placements)].kind = "end"
    /\ placements[Len(placements)].side = "right"
    /\ placements[Len(placements) - 1].kind = "question"
    /\ placements[Len(placements) - 1].side = "left"

\* C15: a pass over one section with required_questions = 1 whose header,
\* question (estimate and safety buffer) and END marker (20 units) together
\* fit in the left column of page 1 ends on page 1 with the question and the
\* END marker in the left column
C15_SingleQuestionStaysLeft ==
    (/\ pc = "done"
     /\ Len(sections) = 1
     /\ sections[1].required_questions = 1
     /\ Len(placements) = 3
     /\ placements[1].y
            + SectionHeight(sections[1].name, sections[1].description)
            + FirstQuestionHeight(QuestionBank[sections[1].questions[1]]) + 50
            + 200
          <= PageH - (MIN_FOOTER_BUFFER + 50))
        => /\ pdf.page = 1
           /\ \A k \in DOMAIN placements :
                 placements[k].page = 1 /\ placements[k].side = "left"

\* every placement unit of the sections fits in a full right column of the
\* page the cursor is on: header plus first question, each question with its
\* safety buffer, the END marker
UnitsFitRightColumn(ss, at) ==
    /\ \A i \in DOMAIN ss :
          LET selected == Slice(ss[i].questions, ss[i].required_questions)
          IN  /\ selected # <<>> =>
                    RightColumnStart(at) + SectionHeight(ss[i].name, ss[i].description)
                        + FirstQuestionHeight(QuestionBank[selected[1]])
                      <= PageH - (MIN_FOOTER_BUFFER + 30)
              /\ \A j \in DOMAIN selected :
                    NeededHeight(QuestionBank[selected[j]]).h + 50
                      <= (PageH - (MIN_FOOTER_BUFFER + 50)) - RightColumnStart(at)
    /\ RightColumnStart(at) + 200 <= PageH - MIN_FOOTER_BUFFER

\* C14: when every placement unit fits in a full right column, a step of the
\* pass that starts a new page is taken with the cursor in the right column,
\* and the page it leaves has placements in its left and in its right column
C14_NewPageFromRightColumn ==
    [][(/\ pdf.page >= 1
        /\ pdf'.page > pdf.page
        /\ UnitsFitRightColumn(sections', pdf))
       => /\ current_side = "right"
          /\ \E k \in DOMAIN placements' :
                placements'[k].page = pdf.page /\ placements'[k].side = "left"
          /\ \E k \in DOMAIN placements' :
                placements'[k].page = pdf.page /\ placements'[k].side = "right"]_vars

\* ------------------------------------------------------------------------
\* The walks over one choice list
\* ------------------------------------------------------------------------
MaxChoices == 4

\* choice texts: two short ones that pair, a medium one that pairs with a
\* short one only, a long one that never pairs
ChoiceLists ==
    UNION { [1..n -> { <<120>>, <<300>>, <<360>>, <<700, 40, 700>> }] : n \in 0..MaxChoices }

InitChoices ==
    /\ Generator({medium_line_height})
    /\ choice_list \in ChoiceLists
    /\ walks = {}
    /\ IdleShuffle
    /\ IdleConstructors
    /\ IdleBlocks /\ IdleBuilder /\ IdleLate

Walked(by, walk) ==
    /\ walks' = walks \cup { [by |-> by, walk |-> walk] }
    /\ UNCHANGED <<choice_list, pass_vars, process_vars, question_orig, question_copy,
                   section_args, section_made, config_args, config_made,
                   block_question, block_done, builder_args, builder, late_vars>>

\* MCQPaperGenerator.measure_question_height over the choices
MeasureWalk ==
    /\ \A w \in walks : w.by # "measure_question_height"
    /\ Walked("measure_question_height",
              measure_question_height(<<300>>, choice_list, <<>>, show_answers).walk)

\* EnhancedMCQPaperGenerator._calculate_choices_height
CalculateWalk ==
    /\ \A w \in walks : w.by # "_calculate_choices_height"
    /\ Walked("_calculate_choices_height", calculate_choices_height(choice_list).walk)

\* the loop of add_question / _render_choices, from the top of a first page
RenderWalk ==
    /\ \A w \in walks : w.by # "_render_choices"
    /\ Walked("_render_choices",
              render_choices(add_page(pdf, show_student_info), choice_list,
                             add_page(pdf, show_student_info).y, 0, cfg).walk)

NextChoices == MeasureWalk \/ CalculateWalk \/ RenderWalk

SpecChoices == InitChoices /\ [][NextChoices]_vars

\* C4: the estimation walks and the rendering walk over a choice list take the
\* same two-up or one-per-line decision at every step: the same sequence of
\* choice indices, the same number of rows
C4_SameWalks ==
    \A a \in walks : \A b \in walks : a.walk = b.walk

RowsCover(walk) ==
    /\ \E r \in DOMAIN walk : walk[r].two
    /\ \E r \in DOMAIN walk : ~walk[r].two

\* the three walks have been taken over a list with paired and single rows
C4_Witness ==
    /\ Cardinality(walks) = 3
    /\ \E w \in walks : w.by = "_render_choices" /\ RowsCover(w.walk)

\* every choice, measured with its label, is wider than half the options
\* width that is left beside the gap between two options
AllChoicesWide(choices) ==
    \A i \in DOMAIN choices :
        2 * measure_option_width(choices[i]) > options_width - option_column_gap

\* C16: when every choice of a list, measured with its label, is wider than
\* half the usable options width, each estimation walk and the rendering walk
\* put every choice on a row of its own: as many rows as choices, none paired
C16_WideChoicesOnePerLine ==
    AllChoicesWide(choice_list) =>
        \A w \in walks :
            /\ Len(w.walk) = Len(choice_list)
            /\ \A r \in DOMAIN w.walk : w.walk[r].at = r /\ ~w.walk[r].two

\* the three walks have been taken over four wide choices
C16_Witness ==
    /\ Len(choice_list) = 4
    /\ AllChoicesWide(choice_list)
    /\ Cardinality(walks) = 3
    /\ \A w \in walks : Len(w.walk) = 4

\* ------------------------------------------------------------------------
\* The shuffle step of generate_mcq_sets_with_keys and
\* generate_enhanced_mcq_sets_with_keys, one question
\* ------------------------------------------------------------------------
Texts == {"a", "b", "c"}

ShuffleInputs ==
    UNION { [choices : [1..n -> Texts], answer : Texts] : n \in 1..MaxChoices }

\* the orders random.shuffle can leave a list of n items in
Orders(n) == { f \in [1..n -> 1..n] : \A i, j \in 1..n : f[i] = f[j] => i = j }

InitShuffle ==
    /\ Generator({medium_line_height})
    /\ question_orig \in { q \in ShuffleInputs : \E i \in DOMAIN q.choices : q.choices[i] = q.answer }
    /\ question_copy = None
    /\ IdleWalk
    /\ IdleConstructors
    /\ IdleBlocks /\ IdleBuilder /\ IdleLate

\* shuffled_indices.index(correct_index)
NewAnswerIndexUnmoved(shuffled_indices, correct_index) == correct_index

NewAnswerIndex(shuffled_indices, correct_index) == IndexOf(shuffled_indices, correct_index, 1)

\* combined = list(zip(all_choices, original_indices)) in the order order
ShuffledQuestion(all_choices, correct_answer, order) ==
    LET shuffled_choices == [i \in DOMAIN all_choices |-> all_choices[order[i]]]
        shuffled_indices == [i \in DOMAIN all_choices |-> order[i]]
        correct_index == IndexOf(all_choices, correct_answer, 1)
    IN  [choices |-> shuffled_choices,
         answer |-> shuffled_choices[NewAnswerIndex(shuffled_indices, correct_index)],
         order |-> order]

Shuffle ==
    /\ question_copy = None
    /\ \E order \in Orders(Len(question_orig.choices)) :
          question_copy' = ShuffledQuestion(question_orig.choices, question_orig.answer, order)
    /\ UNCHANGED <<question_orig, pass_vars, process_vars, walks, choice_list,
                   section_args, section_made, config_args, config_made,
                   block_question, block_done, builder_args, builder, late_vars>>

\* no_shuffle: the copy keeps the choices and the answer
KeepOrder ==
    /\ question_copy = None
    /\ question_copy' = [choices |-> question_orig.choices, answer |-> question_orig.answer,
                         order |-> [i \in DOMAIN question_orig.choices |-> i]]
    /\ UNCHANGED <<question_orig, pass_vars, process_vars, walks, choice_list,
                   section_args, section_made, config_args, config_made,
                   block_question, block_done, builder_args, builder, late_vars>>

NextShuffle == Shuffle \/ KeepOrder

SpecShuffle == InitShuffle /\ [][NextShuffle]_vars

Occurrences(list, text) == Cardinality({ i \in DOMAIN list : list[i] = text })

\* C5: the shuffled choices are a permutation of the original choices, the
\* recorded answer has the text of the answer before the shuffle and occurs
\* among the shuffled choices, duplicate texts or not
C5_ShuffleKeepsAnswer ==
    question_copy # None
        => /\ Len(question_copy.choices) = Len(question_orig.choices)
           /\ \A t \in Texts : Occurrences(question_copy.choices, t)
                               = Occurrences(question_orig.choices, t)
           /\ question_copy.answer = question_orig.answer
           /\ \E i \in DOMAIN question_copy.choices :
                 question_copy.choices[i] = question_copy.answer

\* a shuffle that moved the answer, in a list where its text occurs twice
C5_Witness ==
    /\ question_copy # None
    /\ Occurrences(question_orig.choices, question_orig.answer) = 2
    /\ \E t \in Texts : t # question_orig.answer /\ Occurrences(question_orig.choices, t) >= 1
    /\ question_copy.choices[IndexOf(question_orig.choices, question_orig.answer, 1)]
       # question_orig.answer

\* ------------------------------------------------------------------------
\* The section constructors
\* ------------------------------------------------------------------------
ConstructorArgs ==
    [name : {<<>>, <<300>>}, description : {<<>>, <<400, 300>>},
     section_type : {"MCQ", "ESSAY"},
     questions : { l \in QuestionLists : \A i \in DOMAIN l : l[i] = 1 },
     required_questions : -1..(MaxQuestions + 1), marks_per_question : {1}]

InitSection ==
    /\ Generator({medium_line_height})
    /\ section_args \in ConstructorArgs
    /\ section_made = None
    /\ config_args = None
    /\ config_made = None
    /\ IdleWalk
    /\ IdleShuffle
    /\ IdleBlocks /\ IdleBuilder /\ IdleLate

Made(by, made) ==
    /\ section_made' = [by |-> by, made |-> made]
    /\ UNCHANGED <<section_args, config_args, config_made, pass_vars, process_vars,
                   walks, choice_list, question_orig, question_copy,
                   block_question, block_done, builder_args, builder, late_vars>>

ConstructSection ==
    /\ section_made = None
    /\ Made("SectionConfig",
            SectionConfig(section_args.name, section_args.description, section_args.questions,
                          section_args.required_questions, section_args.marks_per_question))

ConstructMixedSection ==
    /\ section_made = None
    /\ Made("MixedSectionConfig",
            MixedSectionConfig(section_args.name, section_args.description,
                               section_args.section_type, section_args.questions,
                               section_args.required_questions))

NextSection == ConstructSection \/ ConstructMixedSection

SpecSection == InitSection /\ [][NextSection]_vars

\* C7: a section constructor called with no questions, or with a required
\* count above the number of questions, raises ValueError and makes no
\* section; every section made has required_questions <= len(questions) and at
\* least one question
C7_SectionValidated ==
    section_made # None
        => /\ (\/ section_args.questions = <<>>
               \/ section_args.required_questions > Len(section_args.questions))
                  => section_made.made = Raised
           /\ section_made.made # Raised
                  => /\ section_made.made.required_questions
                        <= Len(section_made.made.questions)
                     /\ Len(section_made.made.questions) >= 1

\* SectionConfig has refused a named, described section whose required count
\* is above its questions
C7_Witness ==
    /\ section_made # None
    /\ section_made.by = "SectionConfig"
    /\ section_made.made = Raised
    /\ section_args.name # <<>> /\ section_args.description # <<>>
    /\ section_args.questions # <<>>
    /\ section_args.required_questions > Len(section_args.questions)

\* ------------------------------------------------------------------------
\* PaperConfig.__init__
\* ------------------------------------------------------------------------
\* a text argument: its length, and whether it is the parameter's default
Default(len) == [text |-> "default", len |-> len]
Custom(len) == [text |-> "custom", len |-> len]

Tiers == {"x-small", "small", "medium", "large"}

\* PaperStyles.get_font_sizes and PaperStyles.get_spacing
get_font_sizes(size_config) ==
    IF size_config \notin Tiers THEN Raised ELSE [preset |-> size_config]

get_spacing(size_config) ==
    IF size_config \notin Tiers THEN Raised ELSE [preset |-> size_config]

\* a dict argument: None, an empty dict (falsy) or a non-empty dict
Truthy(dict) == dict = "given"

PaperConfig(title, subtitle, exam_title, font_sizes, spacing_arg, size_config) ==
    IF title.len > 60 THEN Raised
    ELSE IF subtitle.len > 50 THEN Raised
    ELSE IF exam_title.len > 50 THEN Raised
    ELSE IF title.text = "default" THEN Raised
    ELSE IF subtitle.text = "default" THEN Raised
    ELSE IF exam_title.text = "default" THEN Raised
    ELSE IF ~Truthy(font_sizes) /\ get_font_sizes(size_config) = Raised THEN Raised
    ELSE IF ~Truthy(spacing_arg) /\ get_spacing(size_config) = Raised THEN Raised
    ELSE [title |-> title, subtitle |-> subtitle, exam_title |-> exam_title,
          size_config |-> size_config,
          font_sizes |-> IF Truthy(font_sizes) THEN [preset |-> "given"]
                         ELSE get_font_sizes(size_config),
          spacing |-> IF Truthy(spacing_arg) THEN [preset |-> "given"]
                      ELSE get_spacing(size_config)]

ConfigArgs ==
    [title : {Default(32), Custom(12), Custom(60), Custom(61)},
     subtitle : {Default(29), Custom(12), Custom(50), Custom(51)},
     exam_title : {Default(31), Custom(12), Custom(50), Custom(51)},
     font_sizes : {"None", "empty", "given"},
     spacing : {"None", "empty", "given"},
     size_config : Tiers \cup {"huge"}]

InitConfig ==
    /\ Generator({medium_line_height})
    /\ config_args \in ConfigArgs
    /\ config_made = None
    /\ section_args = None
    /\ section_made = None
    /\ IdleWalk
    /\ IdleShuffle
    /\ IdleBlocks /\ IdleBuilder /\ IdleLate

ConstructConfig ==
    /\ config_made = None
    /\ config_made' = [made |-> PaperConfig(config_args.title, config_args.subtitle,
                                            config_args.exam_title, config_args.font_sizes,
                                            config_args.spacing, config_args.size_config)]
    /\ UNCHANGED <<config_args, section_args, section_made, pass_vars, process_vars,
                   walks, choice_list, question_orig, question_copy,
                   block_question, block_done, builder_args, builder, late_vars>>

NextConfig == ConstructConfig

SpecConfig == InitConfig /\ [][NextConfig]_vars

\* C8: PaperConfig raises ValueError when the title is longer than 60
\* characters, the subtitle or the exam title longer than 50, one of the three
\* is the placeholder default, or the size tier is not a known preset, with
\* or without explicit font_sizes and spacing
C8_ConfigValidated ==
    (/\ config_made # None
     /\ \/ config_args.title.len > 60
        \/ config_args.subtitle.len > 50
        \/ config_args.exam_title.len > 50
        \/ "default" \in {config_args.title.text, config_args.subtitle.text,
                          config_args.exam_title.text}
        \/ config_args.size_config \notin Tiers)
        => config_made.made = Raised

\* ------------------------------------------------------------------------
\* Several passes in one process: each pass has a generator of its own, the
\* class-level font cache and the lru_cache outlive the generators
\* ------------------------------------------------------------------------
MaxPasses == 3

RepeatSections ==
    { Construct([questions |-> l, required_questions |-> 0, marks_per_question |-> 1]) :
        l \in { <<1>>, <<2, 2>>, <<3, 3, 3, 3>> } }

LineHeights == {medium_line_height, large_line_height}

InitRepeat ==
    /\ Generator(LineHeights)
    /\ IdleWalk /\ IdleShuffle /\ IdleConstructors /\ IdleBlocks /\ IdleBuilder /\ IdleLate

\* a pass: what identifies it (the generator, its configuration and the
\* sections) and what it drew
ThisPass ==
    [key |-> [gen |-> gen, show_answers |-> show_answers,
              show_student_info |-> show_student_info, spacing |-> spacing,
              sections |-> sections],
     placements |-> placements, outcome |-> pc]

NewInstance(created, line_height_of_config) ==
    /\ inst' = inst + 1
    /\ spacing' = [line_height |-> line_height_of_config]
    /\ initialized_fonts' = created.initialized_fonts
    /\ fonts' = created.fonts
    /\ global_font_cache' = created.global_font_cache

\* the next set of the builder: a new generator, then a new pass
NextPass ==
    /\ pc \in {"done", "failed"}
    /\ inst < MaxPasses
    /\ seen' = Append(seen, ThisPass)
    /\ \E h \in LineHeights : NewInstance(initialize_fonts({}, global_font_cache), h)
    /\ show_answers' \in BOOLEAN
    /\ pdf' = [page |-> 0, y |-> 0, first_page_offset |-> 0]
    /\ current_side' = "left"
    /\ pc' = "new"
    /\ sections' = <<>>
    /\ section' = NoSection
    /\ current_idx' = 0
    /\ first_number' = 0
    /\ question_number' = 1
    /\ total_marks' = 0
    /\ question_count' = 0
    /\ depth' = 0
    /\ sections_done' = 0
    /\ header_at' = NoPlacement
    /\ last' = NoPlacement
    /\ placements' = <<>>
    /\ UNCHANGED <<gen, show_student_info, memo, other_vars>>

NextRepeat ==
    \/ AddPage
    \/ \E s \in RepeatSections : sections = <<>> /\ BeginSection(s)
    \/ AddQuestionMove
    \/ AddQuestionDraw
    \/ CheckAndAdjust
    \/ DrawEndMarker
    \/ NextPass

SpecRepeat == InitRepeat /\ [][NextRepeat]_vars

\* the passes that have ended, the current one included
EndedPasses == IF pc \in {"done", "failed"} THEN Append(seen, ThisPass) ELSE seen

\* C6: two passes over the same sections with the same configuration place
\* every section header, question and the END marker at the same page, column
\* and y, whatever passes ran before them in the process
C6_SamePlacements ==
    \A i \in DOMAIN EndedPasses : \A j \in DOMAIN EndedPasses :
        EndedPasses[i].key = EndedPasses[j].key
            => /\ EndedPasses[i].placements = EndedPasses[j].placements
               /\ EndedPasses[i].outcome = EndedPasses[j].outcome

\* the first and the third pass had the same sections and configuration, the
\* pass between them had another line height, and a question went to the
\* right column
C6_Witness ==
    /\ Len(EndedPasses) = 3
    /\ EndedPasses[1].key = EndedPasses[3].key
    /\ EndedPasses[2].key.spacing # EndedPasses[3].key.spacing
    /\ EndedPasses[2].key.sections = EndedPasses[3].key.sections
    /\ \E k \in DOMAIN EndedPasses[3].placements :
          /\ EndedPasses[3].placements[k].kind = "question"
          /\ EndedPasses[3].placements[k].side = "right"


\* ------------------------------------------------------------------------
\* A question of typed segments: the look-ahead of generate_from_sections,
\* the measurement of add_question and the rendering of its segments
\* ------------------------------------------------------------------------
MaxSegments == 2
MaxMtf == 3

SentinelTokens == {"STATEMENT", "STATEMENTS", "LIST", "MTF_DATA", "PARAGRAPH"}

\* the number of characters of a token
TokenChars(token) ==
    CASE token = "STATEMENT" -> 9
      [] token = "STATEMENTS" -> 10
      [] token = "LIST" -> 4
      [] token = "MTF_DATA" -> 8
      [] token = "PARAGRAPH" -> 9

\* a segment that equals a token: as literal text it is one word
Sentinel(token) == [token |-> token, words |-> <<20 * TokenChars(token)>>]

Segments ==
    { Sentinel(token) : token \in SentinelTokens } \cup { Literal(<<300, 300>>), Literal(<<>>) }

SegmentLists == UNION { [1..n -> Segments] : n \in 1..MaxSegments }

\* the sibling fields of a question: a statement of two words, two list
\* items, a paragraph of three words and a table whose i-th left item takes
\* i lines and whose right items take one line
BlockQuestion(question_text, left_items, right_items) ==
    [Question(<<>>, question_text, <<<<120>>, <<130>>>>, <<120>>, <<>>)
        EXCEPT !.statement = <<310, 310>>,
               !.list_items = << <<320>>, <<330, 330>> >>,
               !.paragraph = <<340, 340, 340>>,
               !.mtf_data = [left_column |-> [i \in 1..left_items |-> [k \in 1..i |-> 300]],
                             right_column |-> [i \in 1..right_items |-> <<290>>]]]

BlockQuestions ==
    { BlockQuestion(question_text, left_items, right_items) :
        question_text \in SegmentLists, left_items \in 0..MaxMtf, right_items \in 0..MaxMtf }

NothingDone == [look_ahead |-> None, measured |-> None, rendered |-> None]

InitBlocks ==
    /\ Generator({medium_line_height})
    /\ gen = "enhanced"
    /\ block_question \in BlockQuestions
    /\ block_done = NothingDone
    /\ IdleWalk /\ IdleShuffle /\ IdleConstructors /\ IdleBuilder /\ IdleLate

\* the texts _render_question_segment hands to multi_cell
SegmentTexts(segment, kwargs) ==
    IF segment.token = "STATEMENT" THEN { kwargs.statement }
    ELSE IF segment.token = "LIST"
    THEN { kwargs.list_items[i] : i \in DOMAIN kwargs.list_items }
    ELSE IF segment.token = "MTF_DATA"
    THEN { kwargs.mtf_data.left_column[i] : i \in DOMAIN kwargs.mtf_data.left_column }
         \cup { kwargs.mtf_data.right_column[i] : i \in DOMAIN kwargs.mtf_data.right_column }
    ELSE IF segment.token = "PARAGRAPH" THEN { kwargs.paragraph }
    ELSE { segment.words }

\* what a measurement of the segments leaves: per segment its height and the
\* calls of estimate_text_height, and the height of the table
Measured(question_text, kwargs) ==
    [heights |-> [i \in DOMAIN question_text |->
                     IF IsBlank(question_text[i]) THEN 0
                     ELSE SegmentHeight(question_text[i], kwargs)],
     estimates |-> [i \in DOMAIN question_text |-> SegmentEstimates(question_text[i], kwargs)],
     table |-> MtfRowsHeight(kwargs.mtf_data.left_column, kwargs.mtf_data.right_column, 1,
                             MtfWidth),
     h |-> measure_universal_question_height(question_text, block_question.choices,
                                             block_question.reasoning, kwargs, show_answers).h]

Done(by, result) ==
    /\ block_done[by] = None
    /\ block_done' = [block_done EXCEPT ![by] = result]
    /\ UNCHANGED <<block_question, pass_vars, process_vars, choice_list, walks,
                   question_orig, question_copy, section_args, section_made, config_args,
                   config_made, builder_args, builder, late_vars>>

\* generate_from_sections: the height of the first question, with height_kwargs
LookAheadBlocks ==
    Done("look_ahead", Measured(get_question_text(block_question), HeightKwargs(block_question)))

\* add_question: the height of the question, with kwargs
MeasureBlocks ==
    Done("measured", Measured(get_question_text(block_question), QuestionKwargs(block_question)))

\* add_question: the segments drawn from the top of a first page, and the
\* table drawn there on its own
RenderBlocks ==
    Done("rendered",
         [texts |-> [i \in DOMAIN get_question_text(block_question) |->
                        IF IsBlank(get_question_text(block_question)[i]) THEN {}
                        ELSE SegmentTexts(get_question_text(block_question)[i],
                                          QuestionKwargs(block_question))],
          segments |-> RenderSegments(add_page(pdf, show_student_info),
                                      get_question_text(block_question), 1,
                                      add_page(pdf, show_student_info).y,
                                      QuestionKwargs(block_question), cfg).current_y
                       - add_page(pdf, show_student_info).y,
          table |-> RenderMtfRows(add_page(pdf, show_student_info),
                                  block_question.mtf_data.left_column,
                                  block_question.mtf_data.right_column, 1,
                                  add_page(pdf, show_student_info).y, cfg).current_y
                    - add_page(pdf, show_student_info).y])

NextBlocks == LookAheadBlocks \/ MeasureBlocks \/ RenderBlocks

SpecBlocks == InitBlocks /\ [][NextBlocks]_vars


\* the content of the sibling field a typed segment stands for
SiblingTexts(q, token) ==
    IF token = "STATEMENT" THEN { q.statement }
    ELSE IF token = "LIST" THEN { q.list_items[i] : i \in DOMAIN q.list_items }
    ELSE IF token = "MTF_DATA"
    THEN { q.mtf_data.left_column[i] : i \in DOMAIN q.mtf_data.left_column }
         \cup { q.mtf_data.right_column[i] : i \in DOMAIN q.mtf_data.right_column }
    ELSE { q.paragraph }

\* C13: every segment of question_text that equals a sentinel token is
\* measured (by the look-ahead and by add_question) and rendered as a typed
\* block: the texts estimated and drawn for it are the contents of its sibling
\* field, and the token itself is never estimated or drawn as literal text
C13_SentinelsAreTypedBlocks ==
    \A i \in DOMAIN block_question.question_text :
        block_question.question_text[i].token \in SentinelTokens =>
            /\ \A by \in {"look_ahead", "measured"} :
                  block_done[by] # None =>
                      /\ \A e \in block_done[by].estimates[i] :
                            e.text # block_question.question_text[i].words
                      /\ block_question.question_text[i].token # "STATEMENTS" =>
                            { e.text : e \in block_done[by].estimates[i] }
                              = SiblingTexts(block_question,
                                             block_question.question_text[i].token)
            /\ block_done.rendered # None =>
                  /\ block_question.question_text[i].words
                        \notin block_done.rendered.texts[i]
                  /\ block_question.question_text[i].token # "STATEMENTS" =>
                        block_done.rendered.texts[i]
                          = SiblingTexts(block_question, block_question.question_text[i].token)


\* the rows a table of two columns has: as many as the longer column, with
\* an empty cell where the shorter column has no item
TableRows(mtf_data) ==
    [i \in 1..Max2(Len(mtf_data.left_column), Len(mtf_data.right_column)) |->
        [left |-> IF i <= Len(mtf_data.left_column) THEN mtf_data.left_column[i] ELSE <<>>,
         right |-> IF i <= Len(mtf_data.right_column) THEN mtf_data.right_column[i] ELSE <<>>]]

CellHeight(text) == IF text = <<>> THEN 0 ELSE estimate_text_height(text, MtfWidth)

RECURSIVE RowsHeight(_, _)
RowsHeight(rows, i) ==
    IF i > Len(rows) THEN 0
    ELSE Max2(CellHeight(rows[i].left), CellHeight(rows[i].right)) + 10
         + RowsHeight(rows, i + 1)

\* C17: a table with L left items and R right items is measured and rendered
\* with max(L, R) rows, each as high as its higher cell plus the row spacing,
\* a missing item counting as an empty cell; a MTF_DATA segment is measured
\* as this table plus its spacing and draws the items of both columns
C17_MtfRowsAreMax ==
    /\ \A by \in {"look_ahead", "measured", "rendered"} :
          block_done[by] # None =>
              block_done[by].table = RowsHeight(TableRows(block_question.mtf_data), 1)
    /\ \A i \in DOMAIN block_question.question_text :
          block_question.question_text[i].token = "MTF_DATA" =>
              /\ \A by \in {"look_ahead", "measured"} :
                    block_done[by] # None =>
                        block_done[by].heights[i]
                          = RowsHeight(TableRows(block_question.mtf_data), 1) + 50
              /\ block_done.rendered # None =>
                    block_done.rendered.texts[i]
                      = { TableRows(block_question.mtf_data)[r].left :
                            r \in 1..Len(block_question.mtf_data.left_column) }
                        \cup { TableRows(block_question.mtf_data)[r].right :
                                 r \in 1..Len(block_question.mtf_data.right_column) }

\* a table of one left item and three right items, in a question with a
\* MTF_DATA segment, has been measured twice and rendered
C17_Witness ==
    /\ Len(block_question.mtf_data.left_column) = 1
    /\ Len(block_question.mtf_data.right_column) = 3
    /\ \E i \in DOMAIN block_question.question_text :
          block_question.question_text[i].token = "MTF_DATA"
    /\ \A by \in {"look_ahead", "measured", "rendered"} : block_done[by] # None
    /\ block_done.rendered.table = 180


\* ------------------------------------------------------------------------
\* generate_enhanced_mcq_sets_with_keys (generate_mcq_sets_with_keys has the
\* same steps with MCQPaperGenerator)
\* ------------------------------------------------------------------------
AlphabetSize == 26
MaxBuilderQuestions == 2

\* list(string.ascii_uppercase[:num_sets]): a set name is the place of its
\* letter in the alphabet, "Set A" is 1
set_names_of(num_sets) == Slice([letter \in 1..AlphabetSize |-> letter], num_sets)

\* the texts of the builder's questions: the j-th question of section s has
\* two choices, <<s, j, 1>> and <<s, j, 2>>; the first is the answer
KeyQuestion(s, j) == [choices |-> << <<s, j, 1>>, <<s, j, 2>> >>, answer |-> <<s, j, 1>>]

\* the '?' of a key row
Unknown == <<>>

SectionDict(s, count) ==
    [name |-> <<300 + s>>, description |-> <<400, 300>>,
     questions |-> [j \in 1..count |-> KeyQuestion(s, j)]]

SectionsData ==
    UNION { { [s \in 1..n |-> SectionDict(s, counts[s])] :
                counts \in [1..n -> 0..MaxBuilderQuestions] } : n \in 1..MaxSections }

\* a configuration with a school name, a subtitle and an exam title
GivenConfig == PaperConfig(Custom(12), Custom(12), Custom(12), "None", "None", "medium")

\* shuffling is explored for calls that ask for one or two sets
BuilderArgs ==
    { a \in [sections_data : SectionsData, num_sets : {-1, 0, 1, 2, AlphabetSize, AlphabetSize + 1},
             config : {None, GivenConfig}, no_shuffle : BOOLEAN] :
        ~a.no_shuffle => a.num_sets \in {1, 2} }

InitBuilder ==
    /\ Generator({medium_line_height})
    /\ builder_args \in BuilderArgs
    /\ builder = [pc |-> "start"]
    /\ IdleWalk /\ IdleShuffle /\ IdleConstructors /\ IdleBlocks /\ IdleLate

Built(next_builder) ==
    /\ builder' = next_builder
    /\ UNCHANGED <<builder_args, pass_vars, process_vars, choice_list, walks, question_orig,
                   question_copy, section_args, section_made, config_args, config_made,
                   block_question, block_done, late_vars>>

\* base_sections: SectionConfig(name, description, questions) of every dict
base_sections_of(sections_data) ==
    [s \in DOMAIN sections_data |->
        SectionConfig(sections_data[s].name, sections_data[s].description,
                      sections_data[s].questions, 0, 1)]

\* the start of the call: set_names, set_data, base_sections; a SectionConfig
\* that raises ends the call
BuilderStart ==
    /\ builder.pc = "start"
    /\ Built(IF \E s \in DOMAIN builder_args.sections_data :
                   base_sections_of(builder_args.sections_data)[s] = Raised
             THEN [pc |-> "raised", raised |-> "ValueError"]
             ELSE [pc |-> "sets",
                   set_names |-> set_names_of(builder_args.num_sets),
                   base_sections |-> base_sections_of(builder_args.sections_data),
                   next |-> 1,
                   set_data |-> <<>>,
                   passed |-> <<>>,
                   rendered |-> <<>>])

\* the copies of one question: its choices shuffled, its answer followed
CopiedQuestions(q, no_shuffle) ==
    IF no_shuffle THEN { [choices |-> q.choices, answer |-> q.answer] }
    ELSE { [choices |-> ShuffledQuestion(q.choices, q.answer, order).choices,
            answer |-> ShuffledQuestion(q.choices, q.answer, order).answer] :
             order \in Orders(Len(q.choices)) }

RECURSIVE CopiesFrom(_, _, _, _)
CopiesFrom(questions, order, j, no_shuffle) ==
    IF j > Len(order) THEN { <<>> }
    ELSE { <<copy>> \o rest : copy \in CopiedQuestions(questions[order[j]], no_shuffle),
                             rest \in CopiesFrom(questions, order, j + 1, no_shuffle) }

\* ordered_questions: the copies in the order random.shuffle leaves them in
OrderedQuestions(questions, no_shuffle) ==
    UNION { CopiesFrom(questions, order, 1, no_shuffle) :
              order \in IF no_shuffle THEN { [j \in DOMAIN questions |-> j] }
                        ELSE Orders(Len(questions)) }

\* set_sections: a copy of every base section with its ordered questions
RECURSIVE SetSectionsFrom(_, _, _)
SetSectionsFrom(base_sections, s, no_shuffle) ==
    IF s > Len(base_sections) THEN { <<>> }
    ELSE { <<SectionConfig(base_sections[s].name, base_sections[s].description, ordered,
                           base_sections[s].required_questions, 1)>> \o rest :
             ordered \in OrderedQuestions(base_sections[s].questions, no_shuffle),
             rest \in SetSectionsFrom(base_sections, s + 1, no_shuffle) }

\* BasePaperGenerator.__init__: self.config = config or PaperConfig()
GeneratorConfig(config) ==
    IF config = None
    THEN PaperConfig(Default(32), Default(29), Default(31), "None", "None", "medium")
    ELSE config

\* the answer key of one set; the slice is taken with the required_questions
\* of the section the loop over base_sections ended on
KeyOfSet(set_sections, last_section) ==
    [total_marks |-> RenderedMarks(set_sections),
     sections |-> [s \in DOMAIN set_sections |->
                     [name |-> set_sections[s].name,
                      questions |->
                          [n \in DOMAIN Slice(set_sections[s].questions,
                                              last_section.required_questions) |->
                              [number |-> n, answer |-> set_sections[s].questions[n].answer]]]]]

\* the answers of the questions generate_from_sections renders, by section
RenderedAnswers(set_sections) ==
    [s \in DOMAIN set_sections |->
        [n \in DOMAIN Slice(set_sections[s].questions, set_sections[s].required_questions) |->
            set_sections[s].questions[n].answer]]

\* one turn of "for set_name in set_names": a generator that raises is caught,
\* reported and the set skipped
SetGenerated(set_name, set_sections) ==
    IF GeneratorConfig(builder_args.config) = Raised
    THEN [builder EXCEPT !.next = @ + 1,
                         !.passed = Append(@, builder_args.config)]
    ELSE [builder EXCEPT !.next = @ + 1,
                         !.passed = @ \o << builder_args.config, builder_args.config,
                                           builder_args.config >>,
                         !.set_data = (set_name :> KeyOfSet(set_sections,
                                                            set_sections[Len(set_sections)]))
                                      @@ @,
                         !.rendered = (set_name :> RenderedAnswers(set_sections)) @@ @]

GenerateSet ==
    /\ builder.pc = "sets"
    /\ builder.next <= Len(builder.set_names)
    /\ \E set_sections \in SetSectionsFrom(builder.base_sections, 1, builder_args.no_shuffle) :
          Built(SetGenerated(builder.set_names[builder.next], set_sections))

\* next(s for s in sections if s['name'] == name)
RECURSIVE FirstNamed(_, _, _)
FirstNamed(sections_of_set, name, s) ==
    IF s > Len(sections_of_set) THEN 0
    ELSE IF sections_of_set[s].name = name THEN s
    ELSE FirstNamed(sections_of_set, name, s + 1)

\* one cell of a key row: KeyError, StopIteration and IndexError give '?'
KeyEntry(set_data, set_name, name, q_num) ==
    IF set_name \notin DOMAIN set_data THEN Unknown
    ELSE IF FirstNamed(set_data[set_name].sections, name, 1) = 0 THEN Unknown
    ELSE IF q_num > Len(set_data[set_name].sections[
                            FirstNamed(set_data[set_name].sections, name, 1)].questions)
    THEN Unknown
    ELSE set_data[set_name].sections[
             FirstNamed(set_data[set_name].sections, name, 1)].questions[q_num].answer

\* csv_rows below the heading: a row per section and question number
csv_rows_of(base_sections, set_names, set_data) ==
    [s \in DOMAIN base_sections |->
        [q_num \in 1..base_sections[s].required_questions |->
            [section |-> base_sections[s].name, number |-> q_num,
             answers |-> [k \in DOMAIN set_names |->
                            KeyEntry(set_data, set_names[k], base_sections[s].name, q_num)]]]]

\* "Generate answer key files" and return set_data
WriteKeys ==
    /\ builder.pc = "sets"
    /\ builder.next > Len(builder.set_names)
    /\ Built([pc |-> "returned",
              set_names |-> builder.set_names,
              base_sections |-> builder.base_sections,
              next |-> builder.next,
              set_data |-> builder.set_data,
              passed |-> builder.passed,
              rendered |-> builder.rendered,
              csv_rows |-> csv_rows_of(builder.base_sections, builder.set_names,
                                       builder.set_data)])

NextBuilder == BuilderStart \/ GenerateSet \/ WriteKeys

SpecBuilder == InitBuilder /\ [][NextBuilder]_vars


\* C18: a call with num_sets greater than 26 or less than 1 raises ValueError
\* before it produces a set; a call that goes on has as many set names as
\* sets were asked for
C18_RejectsBadSetCounts ==
    /\ (/\ builder.pc # "start"
        /\ builder_args.num_sets > AlphabetSize \/ builder_args.num_sets < 1)
          => builder.pc = "raised" /\ builder.raised = "ValueError"
    /\ builder.pc \in {"sets", "returned"}
          => Len(builder.set_names) = builder_args.num_sets

\* C19: a call with config = None and num_sets = 1 that returns has passed a
\* configuration titled "Standard High School" to every generator it made,
\* and its result holds "Set A"
C19_DefaultConfig ==
    (/\ builder.pc = "returned"
     /\ builder_args.config = None
     /\ builder_args.num_sets = 1)
        => /\ 1 \in DOMAIN builder.set_data
           /\ builder.passed # <<>>
           /\ \A k \in DOMAIN builder.passed :
                 /\ builder.passed[k] # None
                 /\ builder.passed[k].title = [text |-> "Standard High School", len |-> 20]

\* C20: when the call returns, for every set that was generated the key rows
\* and the structured key hold, for every section and every question number
\* up to its required_questions, the answer of the question rendered at that
\* place in that set, never the '?' placeholder
C20_KeyComplete ==
    builder.pc = "returned" =>
        \A k \in DOMAIN builder.set_names :
            builder.set_names[k] \in DOMAIN builder.set_data =>
                \A s \in DOMAIN builder.base_sections :
                    /\ Len(builder.set_data[builder.set_names[k]].sections[s].questions)
                         = builder.base_sections[s].required_questions
                    /\ \A n \in 1..builder.base_sections[s].required_questions :
                          /\ builder.csv_rows[s][n].answers[k] # Unknown
                          /\ builder.csv_rows[s][n].answers[k]
                               = builder.rendered[builder.set_names[k]][s][n]
                          /\ builder.set_data[builder.set_names[k]].sections[s].questions[n]
                               = [number |-> n,
                                  answer |-> builder.rendered[builder.set_names[k]][s][n]]

\* ------------------------------------------------------------------------
\* Booklet post-processing of one set: rearrange_for_booklet,
\* create_a3_booklet_pdf and the removal of the temporary booklet
\* (enhanced_mcq_paper_builder.py; mcq_paper_builder.py and
\* mixed_paper_builder.py have the same lines)
\* ------------------------------------------------------------------------
MaxPages == 6

\* the pages of a document: a page of the question paper, a page made by
\* BlankPageGenerator, a page made by new_page()
SourcePage(index) == [kind |-> "source", index |-> index]
StyledBlank(page_number) == [kind |-> "styled_blank", page_number |-> page_number]
NewPage == [kind |-> "blank"]

\* the temporary files: temp_blank_<i>.pdf and temp_booklet_<set>.pdf
TempBlank(i) == [name |-> "temp_blank", i |-> i]
TempBooklet == [name |-> "temp_booklet"]

Saved(pages) == [status |-> "saved", pages |-> pages]

PadN(n) == ((n + 3) \div 4) * 4

\* a sequence that takes the back page again where the inside back page goes
RECURSIVE SequenceFromBackTwice(_, _)
SequenceFromBackTwice(pad_n, i) ==
    IF i >= pad_n \div 2 THEN <<>>
    ELSE <<pad_n - i - 1, i, i + 1, pad_n - i - 1>> \o SequenceFromBackTwice(pad_n, i + 2)

\* "for i in range(0, pad_n // 2, 2): sequence.extend([...])"
RECURSIVE SequenceFrom(_, _)
SequenceFrom(pad_n, i) ==
    IF i >= pad_n \div 2 THEN <<>>
    ELSE <<pad_n - i - 1, i, i + 1, pad_n - i - 2>> \o SequenceFrom(pad_n, i + 2)

\* the sub-step of the post-processing that raises, if one does:
\* blank_generator.output of the last blank page, fitz.open/insert_pdf of a
\* blank page, booklet_doc.save
SubSteps == {"none", "blank_output", "insert_blank", "save"}

\* a source document of n pages, a config or None, the page whose insertion
\* into the booklet raises (or -1), the sub-step that raises
BookletArgs ==
    { a \in [n : 0..MaxPages, config : BOOLEAN, bad : -1..(MaxPages - 1), raises : SubSteps] :
        /\ a.bad < a.n
        /\ a.raises \in {"blank_output", "insert_blank"} => a.config /\ PadN(a.n) > a.n /\ a.n > 0
        /\ a.n = 0 => a.raises = "none" }

InitBooklet ==
    /\ Generator({medium_line_height})
    /\ booklet_args \in BookletArgs
    /\ booklet = [pc |-> "start", files |-> {}]
    /\ IdleWalk /\ IdleShuffle /\ IdleConstructors /\ IdleBlocks /\ IdleBuilder
    /\ IdleEstimate /\ IdleMixed

Booked(next_booklet) ==
    /\ booklet' = next_booklet
    /\ UNCHANGED <<booklet_args, pass_vars, process_vars, choice_list, walks, question_orig,
                   question_copy, section_args, section_made, config_args, config_made,
                   block_question, block_done, builder_args, builder,
                   estimate_args, estimate, mixed_args, mixed>>

\* the blank page files the first loop has written when it ends or raises
BlankFiles(a) ==
    IF a.config /\ PadN(a.n) > a.n
    THEN { TempBlank(i) : i \in 0..(PadN(a.n) - a.n - 1
                                    - (IF a.raises = "blank_output" THEN 1 ELSE 0)) }
    ELSE {}

\* doc after "Add blank pages to the document"
DocWithBlanks(a) ==
    [i \in 1..a.n |-> SourcePage(i - 1)]
        \o (IF a.config THEN [i \in 1..(PadN(a.n) - a.n) |-> StyledBlank(a.n + (i - 1) + 1)]
            ELSE <<>>)

\* "for idx in sequence": the page of doc, or new_page() when the index is
\* past the document or the insertion raises
BookletPages(doc, sequence, bad) ==
    [k \in DOMAIN sequence |->
        IF sequence[k] < Len(doc)
        THEN IF sequence[k] = bad THEN NewPage ELSE doc[sequence[k] + 1]
        ELSE NewPage]

\* rearrange_for_booklet: what it saved to output_pdf_path and the temporary
\* files it leaves; the outer except prints and returns
rearrange_for_booklet(a) ==
    IF a.n = 0
    THEN [saved |-> Saved(<<IF a.config THEN StyledBlank(1) ELSE NewPage>>),
          sequence |-> <<>>, files |-> {}]
    ELSE IF a.raises # "none"
    THEN [saved |-> None, sequence |-> <<>>, files |-> BlankFiles(a)]
    ELSE [saved |-> Saved(BookletPages(DocWithBlanks(a), SequenceFrom(PadN(a.n), 0), a.bad)),
          sequence |-> SequenceFrom(PadN(a.n), 0),
          files |-> {}]

RearrangeForBooklet ==
    /\ booklet.pc = "start"
    /\ Booked([pc |-> "rearranged",
               rearranged |-> rearrange_for_booklet(booklet_args).saved,
               sequence |-> rearrange_for_booklet(booklet_args).sequence,
               files |-> rearrange_for_booklet(booklet_args).files
                           \cup (IF rearrange_for_booklet(booklet_args).saved # None
                                 THEN {TempBooklet} ELSE {})])

\* create_a3_booklet_pdf: two pages of the input on every A3 page; a missing
\* input makes fitz.open raise, which the function prints
create_a3_booklet_pdf(input) ==
    IF input = None THEN None
    ELSE Saved([p \in 1..(PadN(Len(input.pages)) \div 2) |->
                   [left |-> IF 2 * p - 2 < Len(input.pages) THEN input.pages[2 * p - 1]
                             ELSE NewPage,
                    right |-> IF 2 * p - 1 < Len(input.pages) THEN input.pages[2 * p]
                              ELSE NewPage]])

CreateA3Booklet ==
    /\ booklet.pc = "rearranged"
    /\ Booked([pc |-> "converted",
               rearranged |-> booklet.rearranged,
               sequence |-> booklet.sequence,
               a3 |-> create_a3_booklet_pdf(booklet.rearranged),
               files |-> booklet.files])

\* "if os.path.exists(temp_booklet_path): os.remove(temp_booklet_path)"
RemoveTempBooklet ==
    /\ booklet.pc = "converted"
    /\ Booked([pc |-> "returned",
               rearranged |-> booklet.rearranged,
               sequence |-> booklet.sequence,
               a3 |-> booklet.a3,
               files |-> booklet.files \ {TempBooklet}])

NextBooklet == RearrangeForBooklet \/ CreateA3Booklet \/ RemoveTempBooklet

SpecBooklet == InitBooklet /\ [][NextBooklet]_vars

\* C21: for a source document of n >= 1 pages and a call in which nothing but
\* the insertion of a page raises, rearrange_for_booklet saves a document of
\* exactly pad_n = 4 * ceil(n / 4) pages; the booklet sequence holds every
\* index 0..pad_n-1 exactly once; an index that is not a page of the source
\* is emitted as a blank page, a page of the source as that page, or as a
\* blank page when its insertion raises
C21_BookletPages ==
    (/\ booklet.pc # "start"
     /\ booklet_args.n >= 1
     /\ booklet_args.raises = "none")
        => /\ booklet.rearranged # None
           /\ Len(booklet.rearranged.pages) = PadN(booklet_args.n)
           /\ booklet_args.n <= PadN(booklet_args.n)
           /\ PadN(booklet_args.n) < booklet_args.n + 4
           /\ PadN(booklet_args.n) % 4 = 0
           /\ Len(booklet.sequence) = PadN(booklet_args.n)
           /\ \A idx \in 0..(PadN(booklet_args.n) - 1) :
                 Cardinality({ k \in DOMAIN booklet.sequence : booklet.sequence[k] = idx }) = 1
           /\ \A k \in DOMAIN booklet.sequence :
                 booklet.rearranged.pages[k] =
                     IF booklet.sequence[k] >= booklet_args.n
                     THEN IF booklet_args.config
                          THEN StyledBlank(booklet.sequence[k] + 1) ELSE NewPage
                     ELSE IF booklet.sequence[k] = booklet_args.bad THEN NewPage
                     ELSE SourcePage(booklet.sequence[k])

\* a five-page paper without a config has been rearranged into eight pages,
\* three of them blank, one source page replaced because its insertion raised
C21_Witness ==
    /\ booklet.pc = "returned"
    /\ booklet_args.n = 5
    /\ ~booklet_args.config
    /\ booklet_args.raises = "none"
    /\ booklet_args.bad = 2
    /\ Len(booklet.rearranged.pages) = 8
    /\ Cardinality({ k \in DOMAIN booklet.rearranged.pages :
                        booklet.rearranged.pages[k] = NewPage }) = 4

\* C30: when the post-processing of a set returns, no temp_blank_<i>.pdf and
\* no temp_booklet_<set>.pdf is left, whether every sub-step succeeded or a
\* sub-step raised after the file was written
C30_NoTempFilesLeft ==
    booklet.pc = "returned" => booklet.files = {}

\* ------------------------------------------------------------------------
\* Properties of add_question's calls of itself
\* ------------------------------------------------------------------------
\* C22: within one call of add_question, for any question and any cursor, at
\* most two repositionings happen before the question is drawn: add_question
\* calls itself at most twice
C22_AtMostTwoMoves == depth <= 2

\* C23: a question whose estimate and safety buffer exceed the column of a
\* fresh page is still drawn: add_question does not go on adding pages until
\* the interpreter ends its calls of itself with RecursionError
C23_OversizeQuestionDrawn ==
    ~(/\ pc = "failed"
      /\ depth >= RecursionLimit
      /\ ~QuestionFits(NeededHeight(current_question).h, [pdf EXCEPT !.y = 200]))

\* ------------------------------------------------------------------------
\* Column tops
\* ------------------------------------------------------------------------
\* where the step put the cursor before it drew anything: the place of what
\* it drew (the END text is drawn 10 mm below), or the cursor it left
PlacedAt ==
    IF placements' # placements
    THEN [page |-> placements'[Len(placements')].page,
          y |-> placements'[Len(placements')].y
                  - (IF placements'[Len(placements')].kind = "end" THEN 100 ELSE 0)]
    ELSE [page |-> pdf'.page, y |-> pdf'.y]

\* C24: after a step that starts a page the cursor is in the left column, at
\* the top offset of the page when nothing was drawn yet; a step that moves to
\* the right column stays on the page and puts the cursor at
\* first_page_offset + 5 on page 1 and at 20 on a later page; a page break
\* made to place something leaves the left column and y = 20
C24_ColumnTops ==
    [][/\ pdf'.page > pdf.page
            => /\ current_side' = "left"
               /\ PlacedAt.page = pdf'.page
                    => PlacedAt.y = (IF pdf.page = 0 THEN pdf'.first_page_offset + 50 ELSE 200)
       /\ (current_side = "left" /\ current_side' = "right")
            => /\ PlacedAt.page = pdf.page
               /\ PlacedAt.y = RightColumnStart(pdf)
               /\ RightColumnStart(pdf)
                    = (IF pdf.page = 1 THEN pdf.first_page_offset + 50 ELSE 200)]_vars

\* C25: for a first question of any type (plain text, STATEMENT, LIST,
\* PARAGRAPH, MTF_DATA) the height generate_from_sections hands to
\* add_section is the height add_question computes for the same question
C25_LookAheadIsQuestionHeight ==
    (block_done.look_ahead # None /\ block_done.measured # None)
        => block_done.look_ahead.h = block_done.measured.h

\* the half-width cell of a pair: half of the options width that is left
\* beside the gap between two options
FitsHalfWidthCell(option_text) ==
    2 * measure_option_width(option_text) <= options_width - option_column_gap

\* C26: two adjacent choices share a row only if each of them, measured with
\* its label, is no wider than the half-width cell; a choice wider than the
\* cell is never one of a pair
C26_PairsFitHalfWidth ==
    \A w \in walks :
        \A r \in DOMAIN w.walk :
            w.walk[r].two =>
                /\ FitsHalfWidthCell(choice_list[w.walk[r].at])
                /\ FitsHalfWidthCell(choice_list[w.walk[r].at + 1])

\* ------------------------------------------------------------------------
\* One call of estimate_text_height, and the same call again
\* ------------------------------------------------------------------------
MaxWords == 3

\* words that fit both widths, a word as wide as the question width, a word
\* wider than both widths
WordWidths == {100, 300, 790, 900}

EstimateArgs ==
    [text : UNION { [1..n -> WordWidths] : n \in 0..MaxWords },
     width : {question_width, options_width}]

InitEstimate ==
    /\ Generator({medium_line_height})
    /\ estimate_args \in EstimateArgs
    /\ estimate = None
    /\ IdleWalk /\ IdleShuffle /\ IdleConstructors /\ IdleBlocks /\ IdleBuilder
    /\ IdleBooklet /\ IdleMixed

Estimated(value, calls) ==
    /\ estimate' = [value |-> value, calls |-> calls]
    /\ memo' = Remembered({ Est(estimate_args.text, estimate_args.width) })
    /\ UNCHANGED <<estimate_args, pass_vars, instance_vars, seen, choice_list, walks,
                   question_orig, question_copy, section_args, section_made, config_args,
                   config_made, block_question, block_done, builder_args, builder,
                   booklet_args, booklet, mixed_args, mixed>>

\* the first call computes the height
EstimateTextHeight ==
    /\ estimate = None
    /\ Estimated(estimate_text_height(estimate_args.text, estimate_args.width), 1)

\* the second call finds it in the cache
EstimateTextHeightAgain ==
    /\ estimate # None
    /\ estimate.calls = 1
    /\ Estimated(estimate_text_height(estimate_args.text, estimate_args.width), 2)

NextEstimate == EstimateTextHeight \/ EstimateTextHeightAgain

SpecEstimate == InitEstimate /\ [][NextEstimate]_vars

\* greedy word wrap, line by line: a line takes words while it stays within
\* the width, and at least one word
RECURSIVE LineEndFrom(_, _, _, _)
LineEndFrom(words, i, j, width) ==
    IF j < Len(words) /\ get_string_width(SubSeq(words, i, j + 1)) <= width
    THEN LineEndFrom(words, i, j + 1, width)
    ELSE j

RECURSIVE GreedyLines(_, _, _)
GreedyLines(words, i, width) ==
    IF i > Len(words) THEN 0
    ELSE 1 + GreedyLines(words, LineEndFrom(words, i, i, width) + 1, width)

NoWordOverWide(text, width) == \A k \in DOMAIN text : text[k] <= width

\* C28: for a text whose words are each no wider than the width,
\* estimate_text_height is the number of lines of the greedy word wrap times
\* line_height; for the empty (or whitespace-only) text it is one
\* line_height; the result is never 0
C28_GreedyWrapHeight ==
    estimate # None =>
        /\ estimate.value > 0
        /\ estimate_args.text = <<>> => estimate.value = line_height
        /\ (estimate_args.text # <<>> /\ NoWordOverWide(estimate_args.text, estimate_args.width))
              => estimate.value
                   = GreedyLines(estimate_args.text, 1, estimate_args.width) * line_height

\* three words of which two fit a line have been estimated, twice
C28_Witness ==
    /\ estimate # None
    /\ estimate.calls = 2
    /\ estimate_args.text = <<300, 300, 300>>
    /\ estimate_args.width = question_width
    /\ estimate.value = 2 * line_height

\* C29: a word wider than the width takes exactly one line of its own: a
\* text of k words that are each wider than the width has the height
\* k * line_height, a text of one such word the height of one line
C29_OverWideWordOneLine ==
    (/\ estimate # None
     /\ estimate_args.text # <<>>
     /\ \A k \in DOMAIN estimate_args.text : estimate_args.text[k] > estimate_args.width)
        => estimate.value = Len(estimate_args.text) * line_height

\* ------------------------------------------------------------------------
\* MixedPaperGenerator: one pass of generate_paper over one section of a
\* question paper (show_answers false)
\* ------------------------------------------------------------------------
MaxWritten == 3
TallPair == 50

MtfQuestion(words, left_items, right_items) ==
    [question |-> words, left_items |-> left_items, right_items |-> right_items]

\* match-the-following questions: two short pairs; one pair whose left item
\* is taller than a column of the first page; one pair whose left item is
\* taller than every column
MixedMtfBank ==
    << MtfQuestion(<<300, 300>>, << <<300>>, <<300>> >>, << <<290>>, <<290>> >>),
       MtfQuestion(<<300>>, << [i \in 1..(TallPair - 8) |-> 300] >>, << <<290>> >>),
       MtfQuestion(<<300>>, << [i \in 1..TallPair |-> 300] >>, << <<290>> >>) >>

\* multiple choice questions: paired options, wrapped options, and a stem
\* taller than a column
MixedMcqBank ==
    << QuestionBank[1], QuestionBank[2], QuestionBank[OversizeQuestion] >>

MixedBank(section_type) == IF section_type = "MTF" THEN MixedMtfBank ELSE MixedMcqBank

MixedArgs ==
    [section_type : {"MCQ", "MTF"},
     questions : UNION { [1..n -> 1..3] : n \in 1..MaxWritten }]

MixedSection(a) ==
    MixedSectionConfig(<<300>>, <<400, 300>>, a.section_type,
                       [i \in 1..Len(a.questions) |-> MixedBank(a.section_type)[a.questions[i]]],
                       0)

InitMixed ==
    /\ Generator({medium_line_height})
    /\ gen = "mcq"
    /\ show_answers = FALSE
    /\ mixed_args \in MixedArgs
    /\ mixed = None
    /\ IdleWalk /\ IdleShuffle /\ IdleConstructors /\ IdleBlocks /\ IdleBuilder
    /\ IdleBooklet /\ IdleEstimate

mixed_effective_page_height == PageH - MIN_FOOTER_BUFFER

\* "If the question is too tall for a single column": the height the fit
\* tests of a writer use
ClampToColumn(needed_height, at) ==
    LET column_height == mixed_effective_page_height - RightColumnStart(at)
        buffer == 50
    IN  IF needed_height > column_height
        THEN (IF needed_height <= column_height - buffer THEN needed_height
              ELSE column_height - buffer)
        ELSE needed_height

\* "If current position doesn't have enough space, move to next column/page"
mixed_check_and_adjust_position(at, side, needed_height, ssi) ==
    IF at.y + needed_height > mixed_effective_page_height
    THEN IF side = "left" /\ mixed_effective_page_height - RightColumnStart(at) >= needed_height
         THEN [pdf |-> set_y(at, RightColumnStart(at)), side |-> "right"]
         ELSE [pdf |-> set_y(add_page(at, ssi), 200), side |-> "left"]
    ELSE [pdf |-> at, side |-> side]

\* "Revert to original position", then "Move to next column or page"
RevertAndMove(at, original_side, ssi) ==
    IF original_side = "left"
    THEN [pdf |-> set_y(at, RightColumnStart(at)), side |-> "right"]
    ELSE [pdf |-> set_y(add_page(at, ssi), 200), side |-> "left"]

\* what a writer leaves: the cursor, the column, how often it has drawn the
\* question number, whether the question changed column or page after its
\* number was first drawn, and whether the interpreter gave up (RecursionError)
Written(at, side, draws, moved, failed) ==
    [pdf |-> at, side |-> side, draws |-> draws, moved |-> moved, failed |-> failed]

\* the question number, then the question text beside it
NumberAndText(at, words, ssi) ==
    multi_cell(set_y(cell(at, 50, ssi), at.y), words, question_width, ssi)

\* _measure_mcq_question_height, the loop over the choices
RECURSIVE MixedChoicesHeight(_, _, _)
MixedChoicesHeight(choices, i, total_height) ==
    LET label_adjustment == 40
        single_option_render_width == options_width - label_adjustment
        half_option_render_width ==
            (options_width - option_column_gap) \div 2 - label_adjustment
    IN  IF i > Len(choices) THEN total_height
        ELSE IF i + 1 <= Len(choices) /\ can_fit_two_options(choices[i], choices[i + 1])
        THEN MixedChoicesHeight(
                 choices, i + 2,
                 total_height
                 + Max2(estimate_text_height(choices[i], half_option_render_width),
                        estimate_text_height(choices[i + 1], half_option_render_width)) + 1)
        ELSE MixedChoicesHeight(
                 choices, i + 1,
                 total_height + estimate_text_height(choices[i], single_option_render_width)
                 + 1 + 5)

measure_mcq_question_height(question_text, choices) ==
    MixedChoicesHeight(choices, 1,
                       estimate_text_height(question_text, question_width) + 10) + 20

\* MixedPaperGenerator.write_option: [pdf, height]
write_option(at, option_text, y, width, ssi) ==
    IF y > PageH - (MIN_FOOTER_BUFFER + 20) THEN [pdf |-> at, height |-> 0]
    ELSE Then(multi_cell(set_y(cell(set_y(at, y), 50, ssi), y), option_text,
                         width - 50 + 10, ssi),
              LAMBDA drawn : [pdf |-> drawn, height |-> drawn.y - y])

write_option_pair(at, choices, start_idx, y, width, ssi) ==
    IF y > PageH - (MIN_FOOTER_BUFFER + 20) THEN [pdf |-> at, height |-> 0]
    ELSE LET half_width == (width - option_column_gap) \div 2
         IN  Then(write_option(at, choices[start_idx], y, half_width, ssi),
                  LAMBDA first :
                      Then(write_option(first.pdf, choices[start_idx + 1], y, half_width, ssi),
                           LAMBDA second : [pdf |-> second.pdf,
                                            height |-> Max2(first.height, second.height)]))

\* "Write options with proper layout": [pdf, fits]; fits is false when a
\* row returned the height 0
RECURSIVE WriteOptions(_, _, _, _, _)
WriteOptions(at, choices, option_idx, current_y, ssi) ==
    IF option_idx > Len(choices) THEN [pdf |-> set_y(at, current_y + 10), fits |-> TRUE]
    ELSE LET two == /\ option_idx + 1 <= Len(choices)
                    /\ can_fit_two_options(choices[option_idx], choices[option_idx + 1])
         IN  Then(IF two
                  THEN write_option_pair(at, choices, option_idx, current_y, options_width, ssi)
                  ELSE write_option(at, choices[option_idx], current_y, options_width, ssi),
                  LAMBDA row :
                      IF row.height = 0 THEN [pdf |-> row.pdf, fits |-> FALSE]
                      ELSE WriteOptions(row.pdf, choices,
                                        option_idx + (IF two THEN 2 ELSE 1),
                                        current_y + row.height + 10, ssi))

\* one call of _write_mcq_question up to its return or its call of itself:
\* [pdf, side, page, again], page the page the number was drawn on
McqCall(at, side, question, ssi) ==
    Then(ClampToColumn(measure_mcq_question_height(question.question, question.choices), at),
         LAMBDA needed_height :
    Then(mixed_check_and_adjust_position(at, side, needed_height, ssi),
         LAMBDA placed :
    Then(NumberAndText(placed.pdf, question.question, ssi),
         LAMBDA texted :
             LET start_y == placed.pdf.y
                 current_y == texted.y + 10
                 remaining_space == mixed_effective_page_height - current_y
                 options_height == needed_height - (current_y - start_y)
             IN  IF options_height > remaining_space
                 THEN [pdf |-> texted, side |-> placed.side, page |-> placed.pdf.page,
                       again |-> TRUE]
                 ELSE Then(WriteOptions(texted, question.choices, 1, current_y, ssi),
                           LAMBDA options :
                               [pdf |-> options.pdf, side |-> placed.side,
                                page |-> placed.pdf.page, again |-> ~options.fits]))))

\* MixedPaperGenerator._write_mcq_question, calls counting the calls of
\* itself it is nested in
RECURSIVE write_mcq_question(_, _, _, _, _)
write_mcq_question(at, side, question, ssi, calls) ==
    LET call == McqCall(at, side, question, ssi)
        moved == RevertAndMove(call.pdf, call.side, ssi)
    IN  IF call.again
        THEN IF calls >= RecursionLimit
             THEN Written(call.pdf, call.side, calls + 1, TRUE, TRUE)
             ELSE write_mcq_question(moved.pdf, moved.side, question, ssi, calls + 1)
        ELSE Written(call.pdf, call.side, calls + 1,
                     calls > 0 \/ call.pdf.page # call.page, FALSE)

\* the width of the text of an item of a pair, beside its label
MtfContentWidth == (question_width - 80) \div 2 - get_string_width(WithLabel(<<>>))

\* "Calculate height needed for all pairs": every pair is measured against
\* the first right item
RECURSIVE PairsHeight(_, _)
PairsHeight(question, i) ==
    IF i > Len(question.left_items) THEN 0
    ELSE Max2(estimate_text_height(question.left_items[i], MtfContentWidth),
              estimate_text_height(question.right_items[1], MtfContentWidth)) + 10
         + PairsHeight(question, i + 1)

\* "Write column headers": the cursor below them
ColumnHeaders(at, ssi) ==
    ln(ln(cell(set_y(cell(ln(at, 10), 50, ssi), at.y + 10), 50, ssi), 50), 10)

\* "Write pairs": the left item, the right item beside it, the next pair
\* below the taller one
RECURSIVE WritePairs(_, _, _, _, _)
WritePairs(at, question, idx, current_y, ssi) ==
    IF idx > Len(question.left_items) THEN set_y(at, current_y + 20)
    ELSE Then(multi_cell(set_y(cell(set_y(at, current_y), 50, ssi), current_y),
                         question.left_items[idx], MtfContentWidth, ssi),
              LAMBDA left_item :
                  Then(multi_cell(set_y(cell(set_y(left_item, current_y), 50, ssi), current_y),
                                  question.right_items[idx], MtfContentWidth, ssi),
                       LAMBDA right_item :
                           WritePairs(right_item, question, idx + 1,
                                      Max2(left_item.y, right_item.y) + 10, ssi)))

\* one call of _write_mtf_question up to its return or its call of itself:
\* [pdf, side, page, again], page the page the number was drawn on
MtfCall(at, side, question, ssi) ==
    Then(PairsHeight(question, 1),
         LAMBDA pairs_height :
    Then(ClampToColumn(estimate_text_height(question.question, question_width) + 70
                       + pairs_height + 40, at),
         LAMBDA total_height :
    Then(mixed_check_and_adjust_position(at, side, total_height, ssi),
         LAMBDA placed :
    Then(NumberAndText(placed.pdf, question.question, ssi),
         LAMBDA texted :
             LET headers_height == 70
                 remaining_space == mixed_effective_page_height - texted.y
             IN  IF remaining_space < headers_height + pairs_height + 40
                 THEN [pdf |-> texted, side |-> placed.side, page |-> placed.pdf.page,
                       again |-> TRUE]
                 ELSE Then(ColumnHeaders(texted, ssi),
                           LAMBDA headed :
                      Then(WritePairs(headed, question, 1, headed.y, ssi),
                           LAMBDA drawn :
                               [pdf |-> drawn, side |-> placed.side,
                                page |-> placed.pdf.page, again |-> FALSE]))))))

\* MixedPaperGenerator._write_mtf_question, calls counting the calls of
\* itself it is nested in
RECURSIVE write_mtf_question(_, _, _, _, _)
write_mtf_question(at, side, question, ssi, calls) ==
    LET call == MtfCall(at, side, question, ssi)
        moved == RevertAndMove(call.pdf, call.side, ssi)
    IN  IF call.again
        THEN IF calls >= RecursionLimit
             THEN Written(call.pdf, call.side, calls + 1, TRUE, TRUE)
             ELSE write_mtf_question(moved.pdf, moved.side, question, ssi, calls + 1)
        ELSE Written(call.pdf, call.side, calls + 1,
                     calls > 0 \/ call.pdf.page # call.page, FALSE)

\* _add_section: the height it estimates for a question, and the writer of
\* the section's type
MixedNeededHeight(section_type, question) ==
    IF section_type = "MCQ"
    THEN measure_mcq_question_height(question.question, question.choices)
    ELSE estimate_text_height(question.question, question_width) + 150
         + PairsHeight(question, 1) + 20

WriteQuestion(section_type, at, side, question, ssi) ==
    Then(at, LAMBDA start :
                 IF section_type = "MCQ"
                 THEN write_mcq_question(start, side, question, ssi, 0)
                 ELSE write_mtf_question(start, side, question, ssi, 0))

\* the estimates a question asks for
RECURSIVE MixedChoiceKeys(_, _)
MixedChoiceKeys(choices, i) ==
    IF i > Len(choices) THEN {}
    ELSE IF i + 1 <= Len(choices) /\ can_fit_two_options(choices[i], choices[i + 1])
    THEN { Est(choices[i], (options_width - option_column_gap) \div 2 - 40),
           Est(choices[i + 1], (options_width - option_column_gap) \div 2 - 40) }
         \cup MixedChoiceKeys(choices, i + 2)
    ELSE { Est(choices[i], options_width - 40) } \cup MixedChoiceKeys(choices, i + 1)

MixedKeys(section_type, question) ==
    { Est(question.question, question_width) }
    \cup (IF section_type = "MCQ" THEN MixedChoiceKeys(question.choices, 1)
          ELSE { Est(question.left_items[i], MtfContentWidth) :
                   i \in 1..Len(question.left_items) }
               \cup { Est(question.right_items[1], MtfContentWidth) })

MixedFrame ==
    UNCHANGED <<mixed_args, pass_vars, instance_vars, seen, choice_list, walks,
                question_orig, question_copy, section_args, section_made, config_args,
                config_made, block_question, block_done, builder_args, builder,
                booklet_args, booklet, estimate_args, estimate>>

\* generate_paper: the first page
MixedAddPage ==
    /\ mixed = None
    /\ mixed' = [pdf |-> add_page(pdf, show_student_info), current_side |-> "left",
                 question_number |-> 1, drawn |-> <<>>, moved |-> FALSE,
                 question_count |-> 0, status |-> "section"]
    /\ memo' = memo
    /\ MixedFrame

\* a question written: its number drawn w.draws times
QuestionWritten(w, question) ==
    /\ mixed' = [mixed EXCEPT
                    !.pdf = w.pdf,
                    !.current_side = w.side,
                    !.question_number = @ + 1,
                    !.drawn = Append(@, w.draws),
                    !.moved = @ \/ w.moved,
                    !.status = IF w.failed THEN "failed"
                               ELSE IF Len(mixed.drawn) + 1
                                       = MixedSection(mixed_args).required_questions
                               THEN "end" ELSE "questions"]
    /\ memo' = Remembered(MixedKeys(mixed_args.section_type, question))
    /\ MixedFrame

\* _add_section: the section header, then the first question "without
\* position adjustment"
MixedAddSection ==
    /\ mixed # None
    /\ mixed.status = "section"
    /\ LET section_config == MixedSection(mixed_args)
           first_question == section_config.questions[1]
           headed == add_section(mixed.pdf, mixed.current_side, section_config.name,
                                 section_config.description,
                                 MixedNeededHeight(mixed_args.section_type, first_question),
                                 show_student_info)
       IN  QuestionWritten(WriteQuestion(mixed_args.section_type, headed.pdf,
                                         headed.current_side, first_question,
                                         show_student_info),
                           first_question)

\* _add_section: one pass of the loop over the remaining questions
MixedNextQuestion ==
    /\ mixed # None
    /\ mixed.status = "questions"
    /\ LET question == MixedSection(mixed_args).questions[Len(mixed.drawn) + 1]
           adjusted == mixed_check_and_adjust_position(
                           mixed.pdf, mixed.current_side,
                           MixedNeededHeight(mixed_args.section_type, question),
                           show_student_info)
       IN  QuestionWritten(WriteQuestion(mixed_args.section_type, adjusted.pdf,
                                         adjusted.side, question, show_student_info),
                           question)

\* generate_paper: the end marker and the question count
MixedEndMarker ==
    /\ mixed # None
    /\ mixed.status = "end"
    /\ LET marked == draw_end_marker(mixed.pdf, mixed.current_side, show_student_info)
       IN  mixed' = [mixed EXCEPT !.pdf = marked.pdf,
                                  !.current_side = marked.current_side,
                                  !.question_count = mixed.question_number - 1,
                                  !.status = "done"]
    /\ memo' = memo
    /\ MixedFrame

NextMixed == MixedAddPage \/ MixedAddSection \/ MixedNextQuestion \/ MixedEndMarker

SpecMixed == InitMixed /\ [][NextMixed]_vars

\* C27: in MixedPaperGenerator a question, once its number is drawn, stays
\* in its column and on its page and is not drawn again: every question
\* number of a pass is drawn exactly once, and writing a question ends
C27_DrawnOnceWhereItStarted ==
    mixed # None
        => /\ mixed.status # "failed"
           /\ ~mixed.moved
           /\ \A k \in 1..Len(mixed.drawn) : mixed.drawn[k] = 1


====
